---- MODULE Spec2Model ----
(***************************************************************************)
(* Library platform API: the loan workflow (LoansService / LoansRepository)*)
(* and the registration workflow with membership-card allocation          *)
(* (AuthService.register, UsersService.create, MembershipCardsRepository). *)
(*                                                                         *)
(* Every service method is an async function: it runs synchronously up to  *)
(* each awaited Record Store call and resumes with its result.  One action *)
(* of the model is one such segment: the store call that was awaited plus  *)
(* the synchronous code that follows it up to the next await.              *)
(*                                                                         *)
(* Time is counted in whole seconds (TLC integers are 32 bits wide, a span *)
(* of more than 24 days does not fit in milliseconds).  An ISO-8601 string *)
(* produced by Date.toISOString and parsed back by new Date(string) is the *)
(* same instant, so a stored timestamp is the instant itself.              *)
(***************************************************************************)
EXTENDS Integers, Sequences, FiniteSets, TLC

\* ---------------------------------------------------------------- bounds
NumProcs == 2
NumUsers == 2
NumBooks == 2
MaxLoans == 2
MaxMinor == 1
MaxMajor == 1
NumCards == 2
NumEmails == 2
NumPasswords == 2
MaxLog == 1
NumConns == 2
MaxJobs == 2
NumIsbns == 2
MaxWaitTicks == 2

\* ------------------------------------------------------------- constants
DEFAULT_LOAN_DAYS == 21
SecondsPerDay == 24 * 60 * 60
DefaultLoanPeriod == DEFAULT_LOAN_DAYS * SecondsPerDay

Null == -1
Absent == -2

Procs == 1 .. NumProcs
UserIds == 1 .. NumUsers
BookIds == 1 .. (NumBooks + 1)
LoanIds == 1 .. (MaxLoans + 1)
Emails == 1 .. NumEmails
Passwords == 1 .. NumPasswords
USER_ROLES == {"ADMIN", "USER"}
DEFAULT_USER_ROLE == "USER"
SuppliedDueAt == {1}

\* the columns of a book the enrichment job is about
CatalogFields ==
    {"description", "coverImageUrl", "genre", "publicationDate", "isbn10",
     "isbn13"}

ExternalFields == {"externalSource", "externalId", "externalMetadata"}

Fields == CatalogFields \cup ExternalFields

\* a column value stored before the run, and a value taken from the record
\* the external catalog returned (externalSource: 'google_books')
StoredBefore == 1
FromCatalog == 2

VARIABLES now, books, loans, returnCount, cards, users, tokens, pc, req, loc,
          response, log, thrown, conns, stmt, jobs, bookIsbn13, bookFields

vars == <<now, books, loans, returnCount, cards, users, tokens, pc, req, loc,
          response, log, thrown, conns, stmt, jobs, bookIsbn13, bookFields>>

\* The tables of the loan, card and auth workflows, and the rest of the
\* state: the logger's output, the error that reached the caller of a
\* wrapped method, the connection pool with the last statement it ran, and
\* the google-books queue with the ISBN-13 column of the books table and
\* the other columns an enrichment writes.
coreVars == <<now, books, loans, returnCount, cards, users, tokens>>

sideVars == <<log, thrown, conns, stmt, jobs, bookIsbn13, bookFields>>

\* No error object.
NoError == [id |-> 0, http |-> FALSE, name |-> "", message |-> << >>]

\* The decorator arguments and the behaviour of the wrapped method of one
\* call through WithErrorHandling.
NoWrap == [svc |-> "", meth |-> "", emsg |-> "", onError |-> "none",
           inner |-> NoError]

NoReq == [bookId |-> 0, dueAt |-> Absent, loanId |-> 0, userId |-> 0,
          role |-> "", email |-> 0, password |-> 0, wrap |-> NoWrap,
          method |-> "", hasCtx |-> FALSE, handler |-> "", isbn |-> 0,
          field |-> ""]
NoLoc == [dueAt |-> Null, status |-> "", at |-> Null, cardId |-> 0,
          newUserId |-> 0, conn |-> 0, jobId |-> 0, step |-> 0, txn |-> 0,
          trace |-> << >>, isbn13 |-> Absent, isbn10 |-> Absent]
NoResponse == [proc |-> 0, op |-> "", status |-> "", by |-> 0, role |-> "",
               arg |-> 0, id |-> 0, msg |-> ""]

\* A loan row inserted by a seed script: the schema leaves due_at nullable.
SeedLoan == [id |-> 1, userId |-> 1, bookId |-> 1, status |-> "ONGOING",
             borrowedAt |-> 0, dueAt |-> Null, returnedAt |-> Null]

FreeCard == [status |-> "FREE", userId |-> Null, assignedAt |-> Null]

\* The two run-time settings of a connection; a setting that was never
\* set reads as unset.
Conns == 1 .. NumConns
NoSettings == [uid |-> Null, role |-> "unset"]
IdleConn == [owner |-> 0, session |-> NoSettings, local |-> NoSettings]
NoStmt == [method |-> "", conn |-> 0, inTx |-> FALSE, uid |-> Null,
           role |-> "unset", by |-> 0]

\* The catalog rows the run starts from: book 1 was imported earlier (it
\* has an ISBN-13, a description and external columns), the others were
\* typed in with an ISBN-10 only.
SeedBook(b) ==
    [f \in Fields \ {"isbn13"} |->
        IF b = 1
          THEN IF f \in ExternalFields \cup {"description"}
                 THEN StoredBefore ELSE Null
          ELSE IF f = "isbn10" THEN StoredBefore ELSE Null]

Init ==
    /\ now = 0
    /\ books = 1 .. NumBooks
    /\ loans \in {<< >>, <<SeedLoan>>}
    /\ returnCount = [l \in LoanIds |-> 0]
    /\ cards = [c \in 1 .. NumCards |-> FreeCard]
    /\ users = << >>
    /\ tokens = {}
    /\ pc = [p \in Procs |-> "idle"]
    /\ req = [p \in Procs |-> NoReq]
    /\ loc = [p \in Procs |-> NoLoc]
    /\ response = NoResponse
    /\ log = << >>
    /\ thrown = NoError
    /\ conns = [c \in Conns |-> IdleConn]
    /\ stmt = NoStmt
    /\ jobs = << >>
    /\ bookIsbn13 = [b \in 1 .. NumBooks |-> IF b = 1 THEN 1 ELSE Null]
    /\ bookFields = [b \in 1 .. NumBooks |-> SeedBook(b)]

SerialProc == 1

OngoingLoansOf(b) ==
    {i \in DOMAIN loans : loans[i].bookId = b /\ loans[i].returnedAt = Null}

AllIdle == \A p \in Procs : pc[p] = "idle"

\* ----------------------------------------------------------------- clock
TickMinor ==
    /\ (now % DefaultLoanPeriod) < MaxMinor
    /\ now' = now + 1
    /\ UNCHANGED <<books, loans, returnCount, cards, users, tokens, pc, req, loc,
                   response>>
    /\ UNCHANGED sideVars

TickMajor ==
    /\ (now \div DefaultLoanPeriod) < MaxMajor
    /\ now' = now + DefaultLoanPeriod
    /\ UNCHANGED <<books, loans, returnCount, cards, users, tokens, pc, req, loc,
                   response>>
    /\ UNCHANGED sideVars

\* ------------------------------------------------------- repository reads
BooksFindById_Always(id) == TRUE

BooksFindById(id) == id \in books

LoansFindById(id) == IF id \in DOMAIN loans THEN loans[id] ELSE SeedLoan

LoanExists(id) == id \in DOMAIN loans

isBookLoaned_IsNotNull(bookId) ==
    \E i \in DOMAIN loans :
        loans[i].bookId = bookId /\ loans[i].returnedAt # Null

isBookLoaned_WrongColumn(bookId) ==
    \E i \in DOMAIN loans :
        loans[i].id = bookId /\ loans[i].returnedAt = Null

isBookLoaned_SeesPending(bookId) ==
    \/ \E i \in DOMAIN loans :
          loans[i].bookId = bookId /\ loans[i].returnedAt = Null
    \/ \E q \in Procs : pc[q] = "create_insert" /\ req[q].bookId = bookId

isBookLoaned_AnyLoan(bookId) ==
    \E i \in DOMAIN loans : loans[i].bookId = bookId

isBookLoaned(bookId) ==
    \E i \in DOMAIN loans :
        loans[i].bookId = bookId /\ loans[i].returnedAt = Null

\* SELECT ... WHERE returned_at IS NULL (and user_id = $1)
findOngoing == {i \in DOMAIN loans : loans[i].returnedAt = Null}

findOngoingByUserId(userId) ==
    {i \in DOMAIN loans :
        loans[i].userId = userId /\ loans[i].returnedAt = Null}

\* ------------------------------------------------------- method epilogue
Finish(p, op, status, arg, id) ==
    /\ pc' = [pc EXCEPT ![p] = "idle"]
    /\ req' = [req EXCEPT ![p] = NoReq]
    /\ loc' = [loc EXCEPT ![p] = NoLoc]
    /\ response' = [proc |-> p, op |-> op, status |-> status,
                    by |-> req[p].userId, role |-> req[p].role,
                    arg |-> arg, id |-> id, msg |-> ""]

\* ---------------------------------------------------- LoansService.create
CreateCall(p, bookId, dueAt, userId, role) ==
    /\ pc[p] = "idle"
    /\ \/ Len(loans) < MaxLoans
       \/ OngoingLoansOf(bookId) # {}
       \/ bookId \notin books
    /\ pc' = [pc EXCEPT ![p] = "create_findBook"]
    /\ req' = [req EXCEPT ![p] = [NoReq EXCEPT !.bookId = bookId,
                                   !.dueAt = dueAt, !.userId = userId,
                                   !.role = role]]
    /\ response' = NoResponse
    /\ UNCHANGED <<now, books, loans, returnCount, cards, users, tokens, loc>>
    /\ UNCHANGED sideVars

CreateFindBook(p) ==
    /\ pc[p] = "create_findBook"
    /\ IF ~BooksFindById(req[p].bookId)
         THEN Finish(p, "create", "NotFound", req[p].bookId, 0)
         ELSE /\ pc' = [pc EXCEPT ![p] = "create_isBookLoaned"]
              /\ UNCHANGED <<req, loc, response>>
    /\ UNCHANGED <<now, books, loans, returnCount, cards, users, tokens>>
    /\ UNCHANGED sideVars

DefaultDueAt_Minutes(t) == t + DEFAULT_LOAN_DAYS * 24 * 60

DefaultDueAt(t) == t + DEFAULT_LOAN_DAYS * 24 * 60 * 60

DueAtFor(dto, t) == IF dto.dueAt # Absent THEN dto.dueAt ELSE DefaultDueAt(t)

CreateIsBookLoaned(p) ==
    /\ pc[p] = "create_isBookLoaned"
    /\ IF isBookLoaned(req[p].bookId)
         THEN Finish(p, "create", "BadRequest", req[p].bookId, 0)
         ELSE /\ pc' = [pc EXCEPT ![p] = "create_insert"]
              /\ loc' = [loc EXCEPT ![p] = [NoLoc EXCEPT
                           !.dueAt = DueAtFor(req[p], now),
                           !.status = "ONGOING", !.at = now]]
              /\ UNCHANGED <<req, response>>
    /\ UNCHANGED <<now, books, loans, returnCount, cards, users, tokens>>
    /\ UNCHANGED sideVars

\* Column default of loans.borrowed_at: the store's clock at the insert.
BorrowedAtDefault(t) == t

NewLoan(data, id, t) ==
    [id |-> id, userId |-> data.userId, bookId |-> data.bookId,
     status |-> data.status, borrowedAt |-> BorrowedAtDefault(t),
     dueAt |-> data.dueAt, returnedAt |-> Null]

CreateInsert(p) ==
    /\ pc[p] = "create_insert"
    /\ loans' = Append(loans,
                  NewLoan([userId |-> req[p].userId, bookId |-> req[p].bookId,
                           status |-> loc[p].status, dueAt |-> loc[p].dueAt],
                          Len(loans) + 1, now))
    /\ Finish(p, "create", "OK", req[p].bookId, Len(loans) + 1)
    /\ UNCHANGED <<now, books, returnCount, cards, users, tokens>>
    /\ UNCHANGED sideVars

\* ------------------------------------------------ LoansService.returnLoan
ReturnCall(p, loanId, userId, role) ==
    /\ pc[p] = "idle"
    /\ pc' = [pc EXCEPT ![p] = "return_findById"]
    /\ req' = [req EXCEPT ![p] = [NoReq EXCEPT !.loanId = loanId,
                                   !.userId = userId, !.role = role]]
    /\ response' = NoResponse
    /\ UNCHANGED <<now, books, loans, returnCount, cards, users, tokens, loc>>
    /\ UNCHANGED sideVars

isLate_Geq(dueAt, t) == dueAt # Null /\ t >= dueAt

isLate(dueAt, t) == dueAt # Null /\ t > dueAt

ReturnStatus(dueAt, t) == IF isLate(dueAt, t) THEN "LATE" ELSE "RETURNED"

ReturnGuard_NoReturnedCheck(loanId, userId) ==
    IF ~LoanExists(loanId) THEN "NotFound"
    ELSE IF userId # LoansFindById(loanId).userId THEN "Forbidden"
    ELSE "OK"

ReturnGuard_NoOwnerCheck(loanId, userId) ==
    IF ~LoanExists(loanId) THEN "NotFound"
    ELSE IF LoansFindById(loanId).returnedAt # Null THEN "BadRequest"
    ELSE "OK"

ReturnGuard_OwnerFirst(loanId, userId) ==
    IF ~LoanExists(loanId) THEN "NotFound"
    ELSE IF userId # LoansFindById(loanId).userId THEN "Forbidden"
    ELSE IF LoansFindById(loanId).returnedAt # Null THEN "BadRequest"
    ELSE "OK"

ReturnGuard(loanId, userId) ==
    IF ~LoanExists(loanId) THEN "NotFound"
    ELSE IF LoansFindById(loanId).returnedAt # Null THEN "BadRequest"
    ELSE IF userId # LoansFindById(loanId).userId THEN "Forbidden"
    ELSE "OK"

ReturnFindById(p) ==
    /\ pc[p] = "return_findById"
    /\ IF ReturnGuard(req[p].loanId, req[p].userId) # "OK"
         THEN Finish(p, "returnLoan",
                     ReturnGuard(req[p].loanId, req[p].userId),
                     req[p].loanId, 0)
         ELSE /\ pc' = [pc EXCEPT ![p] = "return_update"]
              /\ loc' = [loc EXCEPT ![p] = [NoLoc EXCEPT
                    !.status = ReturnStatus(LoansFindById(req[p].loanId).dueAt,
                                            now),
                    !.at = now]]
              /\ UNCHANGED <<req, response>>
    /\ UNCHANGED <<now, books, loans, returnCount, cards, users, tokens>>
    /\ UNCHANGED sideVars

LoansUpdate_NoWhere(id, data) ==
    [i \in DOMAIN loans |-> [loans[i] EXCEPT !.status = data.status,
                                              !.returnedAt = data.returnedAt]]

LoansUpdate_StatusOnly(id, data) ==
    [loans EXCEPT ![id] = [@ EXCEPT !.status = data.status]]

LoansUpdate_OnlyOngoing(id, data) ==
    [loans EXCEPT ![id] =
        IF @.returnedAt = Null
          THEN [@ EXCEPT !.status = data.status,
                         !.returnedAt = data.returnedAt]
          ELSE @]

LoansUpdate(id, data) ==
    [loans EXCEPT ![id] = [@ EXCEPT !.status = data.status,
                                     !.returnedAt = data.returnedAt]]

ReturnUpdate(p) ==
    /\ pc[p] = "return_update"
    /\ IF ~LoanExists(req[p].loanId)
         THEN /\ Finish(p, "returnLoan", "NotFound", req[p].loanId, 0)
              /\ UNCHANGED <<loans, returnCount>>
         ELSE /\ loans' = LoansUpdate(req[p].loanId,
                              [status |-> loc[p].status,
                               returnedAt |-> loc[p].at])
              /\ returnCount' = [returnCount EXCEPT ![req[p].loanId] = @ + 1]
              /\ Finish(p, "returnLoan", "OK", req[p].loanId, req[p].loanId)
    /\ UNCHANGED <<now, books, cards, users, tokens>>
    /\ UNCHANGED sideVars

\* --------------------------------------------- MembershipCardsRepository
\* SELECT ... WHERE status = 'FREE' LIMIT 1 has no ORDER BY: any FREE row
\* may be the one returned.
findFirstFree_AnyCard == DOMAIN cards

findFirstFree == {c \in DOMAIN cards : cards[c].status = "FREE"}

CardsUpdate_NoMatch(id, data) == cards

CardsUpdate_NoWhere(id, data) ==
    [c \in DOMAIN cards |->
        [cards[c] EXCEPT !.status = data.status, !.userId = data.userId,
                         !.assignedAt = data.assignedAt]]

CardsUpdate_OnlyFree(id, data) ==
    [c \in DOMAIN cards |->
        IF c = id /\ cards[c].status = "FREE"
          THEN [cards[c] EXCEPT !.status = data.status,
                                !.userId = data.userId,
                                !.assignedAt = data.assignedAt]
          ELSE cards[c]]

CardsUpdate(id, data) ==
    [c \in DOMAIN cards |->
        IF c = id
          THEN [cards[c] EXCEPT !.status = data.status,
                                !.userId = data.userId,
                                !.assignedAt = data.assignedAt]
          ELSE cards[c]]

\* ------------------------------------------------------- UsersRepository
existsByEmail_WrongColumn(email) ==
    \E i \in DOMAIN users : users[i].id = email

existsByEmail(email) == \E i \in DOMAIN users : users[i].email = email

findByEmail_WrongColumn(email) == {i \in DOMAIN users : users[i].id = email}

\* SELECT ... WHERE email = $1 LIMIT 1: the ids of the rows that may be
\* returned, none when the set is empty.
findByEmail(email) == {i \in DOMAIN users : users[i].email = email}

\* The credential hasher: a digest carries the cost factor and is checked
\* against a plaintext by recomputation.
BcryptCost == 10

Hash(password) == <<"bcrypt", BcryptCost, password>>

Compare(password, digest) == digest[1] = "bcrypt" /\ digest[3] = password

\* The password the owner of an email address registers with.
PasswordFor(email) == ((email - 1) % NumPasswords) + 1

NewUser(id, email) ==
    [id |-> id, email |-> email, password |-> Hash(PasswordFor(email)),
     role |-> DEFAULT_USER_ROLE]

\* ------------------------------------------------- AuthService.register
RegisterCall(p, email) ==
    /\ pc[p] = "idle"
    /\ pc' = [pc EXCEPT ![p] = "register_findFirstFree"]
    /\ req' = [req EXCEPT ![p] = [NoReq EXCEPT !.email = email]]
    /\ response' = NoResponse
    /\ UNCHANGED <<now, books, loans, returnCount, cards, users, tokens, loc>>
    /\ UNCHANGED sideVars

\* step 1: membershipCardsService.findFirstFree()
RegisterFindFirstFree(p) ==
    /\ pc[p] = "register_findFirstFree"
    /\ IF findFirstFree = {}
         THEN Finish(p, "register", "ServiceUnavailable", req[p].email, 0)
         ELSE /\ \E c \in findFirstFree :
                    loc' = [loc EXCEPT ![p] = [NoLoc EXCEPT !.cardId = c]]
              /\ pc' = [pc EXCEPT ![p] = "register_existsByEmail"]
              /\ UNCHANGED <<req, response>>
    /\ UNCHANGED <<now, books, loans, returnCount, cards, users, tokens>>
    /\ UNCHANGED sideVars

\* step 2a: usersService.create -> usersRepository.existsByEmail
RegisterExistsByEmail(p) ==
    /\ pc[p] = "register_existsByEmail"
    /\ IF existsByEmail(req[p].email)
         THEN Finish(p, "register", "Conflict", req[p].email, 0)
         ELSE /\ pc' = [pc EXCEPT ![p] = "register_createUser"]
              /\ UNCHANGED <<req, loc, response>>
    /\ UNCHANGED <<now, books, loans, returnCount, cards, users, tokens>>
    /\ UNCHANGED sideVars

\* step 2b: usersService.create -> usersRepository.create; users.email is
\* unique in the store, a duplicate insert is rejected by the store.
RegisterCreateUser(p) ==
    /\ pc[p] = "register_createUser"
    /\ IF existsByEmail(req[p].email)
         THEN /\ Finish(p, "register", "Error", req[p].email, 0)
              /\ UNCHANGED users
         ELSE /\ users' = Append(users, NewUser(Len(users) + 1, req[p].email))
              /\ loc' = [loc EXCEPT ![p].newUserId = Len(users) + 1,
                                    ![p].at = now]
              /\ pc' = [pc EXCEPT ![p] = "register_assign"]
              /\ UNCHANGED <<req, response>>
    /\ UNCHANGED <<now, books, loans, returnCount, cards, tokens>>
    /\ UNCHANGED sideVars

\* steps 3 and 4: membershipCardsRepository.update, then jwtService.sign
RegisterAssign(p) ==
    /\ pc[p] = "register_assign"
    /\ cards' = CardsUpdate(loc[p].cardId,
                    [status |-> "IN_USE", userId |-> loc[p].newUserId,
                     assignedAt |-> loc[p].at])
    /\ tokens' = tokens \cup {[sub |-> loc[p].newUserId,
                               email |-> req[p].email,
                               role |-> DEFAULT_USER_ROLE]}
    /\ Finish(p, "register", "OK", req[p].email, loc[p].newUserId)
    /\ UNCHANGED <<now, books, loans, returnCount, users>>
    /\ UNCHANGED sideVars

\* membershipCardsRepository.update rejects (the store fails the
\* statement): db.transaction rolls the update's own transaction back and
\* the error propagates through register; nothing undoes the user insert,
\* which was committed by its own transaction.
CardsUpdateFailed_Applied(id, data) ==
    [c \in DOMAIN cards |->
        IF c = id
          THEN [cards[c] EXCEPT !.status = data.status,
                                !.userId = data.userId,
                                !.assignedAt = data.assignedAt]
          ELSE cards[c]]

CardsUpdateFailed(id, data) == cards

RegisterAssignFails(p) ==
    /\ pc[p] = "register_assign"
    /\ cards' = CardsUpdateFailed(loc[p].cardId,
                    [status |-> "IN_USE", userId |-> loc[p].newUserId,
                     assignedAt |-> loc[p].at])
    /\ Finish(p, "register", "Error", req[p].email, 0)
    /\ UNCHANGED <<now, books, loans, returnCount, users, tokens>>
    /\ UNCHANGED sideVars

\* ---------------------------------------------------- AuthService.login
InvalidCredentials == "Invalid credentials"

LoginCall(p, email, password) ==
    /\ pc[p] = "idle"
    /\ pc' = [pc EXCEPT ![p] = "login_findByEmail"]
    /\ req' = [req EXCEPT ![p] = [NoReq EXCEPT !.email = email,
                                   !.password = password]]
    /\ response' = NoResponse
    /\ UNCHANGED <<now, books, loans, returnCount, cards, users, tokens, loc>>
    /\ UNCHANGED sideVars

LoginFail(p) ==
    /\ pc' = [pc EXCEPT ![p] = "idle"]
    /\ req' = [req EXCEPT ![p] = NoReq]
    /\ loc' = [loc EXCEPT ![p] = NoLoc]
    /\ response' = [NoResponse EXCEPT !.proc = p, !.op = "login",
                                      !.status = "Unauthorized",
                                      !.arg = req[p].email,
                                      !.msg = InvalidCredentials]

\* step 1: usersRepository.findByEmail(dto.email)
LoginFindByEmail(p) ==
    /\ pc[p] = "login_findByEmail"
    /\ IF findByEmail(req[p].email) = {}
         THEN LoginFail(p)
         ELSE /\ \E i \in findByEmail(req[p].email) :
                    loc' = [loc EXCEPT ![p] = [NoLoc EXCEPT !.newUserId = i]]
              /\ pc' = [pc EXCEPT ![p] = "login_compare"]
              /\ UNCHANGED <<req, response>>
    /\ UNCHANGED <<now, books, loans, returnCount, cards, users, tokens>>
    /\ UNCHANGED sideVars

\* steps 2 and 3: bcrypt.compare(dto.password, user.password), then
\* jwtService.sign
LoginCompare(p) ==
    /\ pc[p] = "login_compare"
    /\ IF ~Compare(req[p].password, users[loc[p].newUserId].password)
         THEN LoginFail(p) /\ UNCHANGED tokens
         ELSE /\ tokens' = tokens \cup
                    {[sub |-> users[loc[p].newUserId].id,
                      email |-> users[loc[p].newUserId].email,
                      role |-> users[loc[p].newUserId].role]}
              /\ Finish(p, "login", "OK", req[p].email, loc[p].newUserId)
    /\ UNCHANGED <<now, books, loans, returnCount, cards, users>>
    /\ UNCHANGED sideVars

\* ------------------------------------ MembershipCardsService.assignToUser
CardIds == 1 .. (NumCards + 1)

AssignData_Free(userId, t) ==
    [status |-> "FREE", userId |-> Null, assignedAt |-> Null]

AssignData(userId, t) ==
    [status |-> "IN_USE", userId |-> userId, assignedAt |-> t]

\* The arguments of the repository call, new Date() among them, are
\* evaluated before the call is awaited.
AssignCall(p, cardId, userId) ==
    /\ pc[p] = "idle"
    /\ pc' = [pc EXCEPT ![p] = "assign_update"]
    /\ req' = [req EXCEPT ![p] = [NoReq EXCEPT !.userId = userId]]
    /\ loc' = [loc EXCEPT ![p] = [NoLoc EXCEPT !.cardId = cardId, !.at = now]]
    /\ response' = NoResponse
    /\ UNCHANGED <<now, books, loans, returnCount, cards, users, tokens>>
    /\ UNCHANGED sideVars

\* UPDATE ... WHERE id = cardId RETURNING: no row, no change, and the
\* method returns undefined (id 0 in the response).
AssignUpdate(p) ==
    /\ pc[p] = "assign_update"
    /\ cards' = CardsUpdate(loc[p].cardId, AssignData(req[p].userId, loc[p].at))
    /\ Finish(p, "assignToUser", "OK", loc[p].cardId,
              IF loc[p].cardId \in DOMAIN cards THEN loc[p].cardId ELSE 0)
    /\ UNCHANGED <<now, books, loans, returnCount, users, tokens>>
    /\ UNCHANGED sideVars

\* ---------------------------------------------------- WithErrorHandling
\* The decorated methods: the service name and the method label given to
\* the decorator.
WrapSites == {<<"LoansService", "create">>,
              <<"MembershipCardsService", "findFreeMembershipCard">>}

\* What a wrapped method may do: return, throw an HttpException or throw
\* another error.
InnerErrors ==
    {[id |-> 1, http |-> TRUE, name |-> k, message |-> <<"not allowed">>] :
        k \in {"NotFoundException", "ConflictException"}}
    \cup {[id |-> 1, http |-> FALSE, name |-> k, message |-> <<"boom">>] :
            k \in {"Error", "TypeError"}}

\* String(error): the error's name, a colon and its message.
ErrorToString(e) == <<e.name, ": ">> \o e.message

\* errorMessage ? errorMessage + ', ' : '' (the string form of the
\* argument; an absent argument and the empty string are both falsy).
MsgPrefix(emsg) == IF emsg = "" THEN <<"">> ELSE <<emsg, ", ">>

BuildMsg(svc, meth, emsg, e) ==
    <<svc, ": Error in ", meth, ": ">> \o MsgPrefix(emsg) \o <<" ">>
    \o ErrorToString(e)

Rethrow_AlwaysWrap(e, msg) ==
    [id |-> 2, http |-> FALSE, name |-> "Error", message |-> msg]

\* throw error for an HttpException, throw new Error(msg) otherwise
Rethrow(e, msg) ==
    IF e.http THEN e
    ELSE [id |-> 2, http |-> FALSE, name |-> "Error", message |-> msg]

\* The error of an onError callback that rejects.
OnErrorFailure ==
    [id |-> 3, http |-> FALSE, name |-> "Error",
     message |-> <<"onError failed">>]

WrapCall(p, site, emsg, onError, inner) ==
    /\ pc[p] = "idle"
    /\ Len(log) < MaxLog
    /\ pc' = [pc EXCEPT ![p] = "weh_try"]
    /\ req' = [req EXCEPT ![p] = [NoReq EXCEPT !.wrap =
                  [svc |-> site[1], meth |-> site[2], emsg |-> emsg,
                   onError |-> onError, inner |-> inner]]]
    /\ response' = NoResponse
    /\ thrown' = NoError
    /\ UNCHANGED coreVars
    /\ UNCHANGED <<loc, log, conns, stmt, jobs, bookIsbn13, bookFields>>

\* await originalMethod.apply(this, args); in the catch block the message
\* is built and logged, then onError is awaited when there is one.
WehTry(p) ==
    /\ pc[p] = "weh_try"
    /\ LET w == req[p].wrap
           msg == BuildMsg(w.svc, w.meth, w.emsg, w.inner)
       IN  IF w.inner = NoError
             THEN /\ Finish(p, w.meth, "OK", 0, 0)
                  /\ UNCHANGED <<log, thrown>>
             ELSE /\ log' = Append(log, msg)
                  /\ IF w.onError # "none"
                       THEN /\ pc' = [pc EXCEPT ![p] = "weh_onError"]
                            /\ UNCHANGED <<req, loc, response, thrown>>
                       ELSE /\ thrown' = Rethrow(w.inner, msg)
                            /\ Finish(p, w.meth, "Threw", 0, 0)
    /\ UNCHANGED coreVars
    /\ UNCHANGED <<conns, stmt, jobs, bookIsbn13, bookFields>>

\* await onError(...) has settled: its rejection leaves the catch block,
\* otherwise the error is rethrown or wrapped.
WehOnError(p) ==
    /\ pc[p] = "weh_onError"
    /\ LET w == req[p].wrap
           msg == BuildMsg(w.svc, w.meth, w.emsg, w.inner)
       IN  /\ thrown' = IF w.onError = "throws" THEN OnErrorFailure
                        ELSE Rethrow(w.inner, msg)
           /\ Finish(p, w.meth, "Threw", 0, 0)
    /\ UNCHANGED coreVars
    /\ UNCHANGED <<log, conns, stmt, jobs, bookIsbn13, bookFields>>

\* --------------------------------------------------- TransactionService
\* Repository methods: whether the method opens a transaction through
\* withTransaction, and whether its statement is issued on the
\* transaction handle tx or on the injected database this.db.
RepoMethods == {"LoansRepository.isBookLoaned",
                "MembershipCardsRepository.update",
                "UsersRepository.existsByEmail",
                "BooksRepository.findById"}

UsesTransaction(m) == m # "BooksRepository.findById"

StatementVia(m) ==
    IF m \in {"UsersRepository.existsByEmail", "BooksRepository.findById"}
      THEN "db" ELSE "tx"

\* The empty string written for a missing user id.
EmptyId == 0

\* The value written to app.current_user_id.
SettingId(hasCtx, userId) ==
    IF hasCtx /\ userId \notin {Absent, 0} THEN userId ELSE EmptyId

SettingRole_NoDefault(hasCtx, userRole) ==
    IF hasCtx THEN userRole ELSE ""

\* The value written to app.current_user_role.
SettingRole(hasCtx, userRole) ==
    IF hasCtx THEN userRole ELSE "ADMIN"

\* set_config(name, value, is_local): a local value lasts until the end of
\* the transaction, a session value until the connection closes.
SetConfig(conn, name, value, isLocal) ==
    IF isLocal
      THEN [conn EXCEPT !.local = [@ EXCEPT ![name] = value]]
      ELSE [conn EXCEPT !.session = [@ EXCEPT ![name] = value]]

\* current_setting: the local value if there is one, else the session's.
Effective(conn) ==
    [uid |-> IF conn.local.uid # Null THEN conn.local.uid
             ELSE conn.session.uid,
     role |-> IF conn.local.role # "unset" THEN conn.local.role
              ELSE conn.session.role]

FreeConns == {c \in Conns : conns[c].owner = 0}

Executed(p, c, inTx) ==
    [method |-> req[p].method, conn |-> c, inTx |-> inTx,
     uid |-> Effective(conns[c]).uid, role |-> Effective(conns[c]).role,
     by |-> p]

RepoCall(p, m, hasCtx, userId, userRole) ==
    /\ pc[p] = "idle"
    /\ pc' = [pc EXCEPT ![p] = IF UsesTransaction(m) THEN "tx_begin"
                                ELSE "db_statement"]
    /\ req' = [req EXCEPT ![p] = [NoReq EXCEPT !.method = m,
                                   !.hasCtx = hasCtx, !.userId = userId,
                                   !.role = userRole]]
    /\ response' = NoResponse
    /\ UNCHANGED coreVars
    /\ UNCHANGED <<loc, log, thrown, conns, stmt, jobs, bookIsbn13, bookFields>>

\* this.db.transaction: a connection is taken from the pool and BEGIN is
\* issued on it.
TxBegin(p) ==
    /\ pc[p] = "tx_begin"
    /\ \E c \in FreeConns :
         /\ conns' = [conns EXCEPT ![c].owner = p]
         /\ loc' = [loc EXCEPT ![p] = [NoLoc EXCEPT !.conn = c]]
    /\ pc' = [pc EXCEPT ![p] = "tx_setUserId"]
    /\ UNCHANGED coreVars
    /\ UNCHANGED <<req, response, log, thrown, stmt, jobs, bookIsbn13, bookFields>>

TxSetUserId(p) ==
    /\ pc[p] = "tx_setUserId"
    /\ conns' = [conns EXCEPT ![loc[p].conn] =
                   SetConfig(@, "uid",
                             SettingId(req[p].hasCtx, req[p].userId), TRUE)]
    /\ pc' = [pc EXCEPT ![p] = "tx_setRole"]
    /\ UNCHANGED coreVars
    /\ UNCHANGED <<req, loc, response, log, thrown, stmt, jobs, bookIsbn13, bookFields>>

TxSetRole(p) ==
    /\ pc[p] = "tx_setRole"
    /\ conns' = [conns EXCEPT ![loc[p].conn] =
                   SetConfig(@, "role",
                             SettingRole(req[p].hasCtx, req[p].role), TRUE)]
    /\ pc' = [pc EXCEPT ![p] = "tx_callback"]
    /\ UNCHANGED coreVars
    /\ UNCHANGED <<req, loc, response, log, thrown, stmt, jobs, bookIsbn13, bookFields>>

\* callback(tx): the method's statement runs on the transaction's
\* connection when it is issued on tx, and on another connection of the
\* pool, outside any transaction, when it is issued on this.db.
TxCallback(p) ==
    /\ pc[p] = "tx_callback"
    /\ IF StatementVia(req[p].method) = "tx"
         THEN stmt' = Executed(p, loc[p].conn, TRUE)
         ELSE \E d \in FreeConns : stmt' = Executed(p, d, FALSE)
    /\ pc' = [pc EXCEPT ![p] = "tx_commit"]
    /\ UNCHANGED coreVars
    /\ UNCHANGED <<req, loc, response, log, thrown, conns, jobs, bookIsbn13, bookFields>>

\* COMMIT: the local settings end with the transaction and the connection
\* goes back to the pool.
TxCommit(p) ==
    /\ pc[p] = "tx_commit"
    /\ conns' = [conns EXCEPT ![loc[p].conn] =
                   [@ EXCEPT !.owner = 0, !.local = NoSettings]]
    /\ Finish(p, req[p].method, "OK", 0, 0)
    /\ UNCHANGED coreVars
    /\ UNCHANGED <<log, thrown, stmt, jobs, bookIsbn13, bookFields>>

\* A statement issued on this.db by a method that opens no transaction.
DbStatement(p) ==
    /\ pc[p] = "db_statement"
    /\ \E d \in FreeConns : stmt' = Executed(p, d, FALSE)
    /\ Finish(p, req[p].method, "OK", 0, 0)
    /\ UNCHANGED coreVars
    /\ UNCHANGED <<log, thrown, conns, jobs, bookIsbn13, bookFields>>

\* ------------------------------------- store calls of a workflow operation
\* The repository calls an operation awaits, in order, and whether it hands
\* its rlsContext to the call.  The last entry is a bare repository call
\* made with whatever context its caller supplies.
Operations == {"LoansService.create", "LoansService.returnLoan",
               "MembershipCardsService.findFirstFree",
               "LoansRepository.findOngoing"}

OpPlan(op) ==
    CASE op = "LoansService.create" ->
            << [method |-> "BooksRepository.findById", ctx |-> "none"],
               [method |-> "LoansRepository.isBookLoaned", ctx |-> "none"],
               [method |-> "LoansRepository.create", ctx |-> "given"] >>
      [] op = "LoansService.returnLoan" ->
            << [method |-> "LoansRepository.findById", ctx |-> "given"],
               [method |-> "LoansRepository.update", ctx |-> "given"] >>
      [] op = "MembershipCardsService.findFirstFree" ->
            << [method |-> "MembershipCardsRepository.findFirstFree",
                ctx |-> "none"] >>
      [] OTHER -> << [method |-> op, ctx |-> "given"] >>

\* whether the call in progress receives an rlsContext
CallHasCtx(p) ==
    /\ req[p].hasCtx
    /\ OpPlan(req[p].handler)[loc[p].step].ctx = "given"

\* the statement the call in progress executes on connection c
Statement(p, c, inTx) ==
    [method |-> req[p].method, inTx |-> inTx,
     txn |-> IF inTx THEN loc[p].txn ELSE 0,
     uid |-> Effective(conns[c]).uid, role |-> Effective(conns[c]).role]

OpCall(p, op, hasCtx, userId, role) ==
    /\ pc[p] = "idle"
    /\ pc' = [pc EXCEPT ![p] = "op_next"]
    /\ req' = [req EXCEPT ![p] = [NoReq EXCEPT !.handler = op,
                                   !.hasCtx = hasCtx, !.userId = userId,
                                   !.role = role]]
    /\ loc' = [loc EXCEPT ![p] = NoLoc]
    /\ response' = NoResponse
    /\ UNCHANGED coreVars
    /\ UNCHANGED sideVars

\* the operation awaits its next repository call; after a call that is not
\* its last, a failed guard may instead end it with an exception
OpNext(p) ==
    /\ pc[p] = "op_next"
    /\ LET plan == OpPlan(req[p].handler)
       IN  \/ /\ loc[p].step < Len(plan)
              /\ loc' = [loc EXCEPT ![p].step = @ + 1]
              /\ req' = [req EXCEPT ![p].method = plan[loc[p].step + 1].method]
              /\ pc' = [pc EXCEPT ![p] =
                          IF UsesTransaction(plan[loc[p].step + 1].method)
                            THEN "op_begin" ELSE "op_db"]
              /\ UNCHANGED response
           \/ /\ loc[p].step = Len(plan)
              /\ pc' = [pc EXCEPT ![p] = "op_done"]
              /\ UNCHANGED <<req, loc, response>>
           \/ /\ loc[p].step \in 1 .. (Len(plan) - 1)
              /\ Finish(p, req[p].handler, "Rejected", 0, 0)
    /\ UNCHANGED coreVars
    /\ UNCHANGED sideVars

\* this.db.transaction: a connection is taken from the pool, BEGIN
OpBegin(p) ==
    /\ pc[p] = "op_begin"
    /\ \E c \in FreeConns :
         /\ conns' = [conns EXCEPT ![c].owner = p]
         /\ loc' = [loc EXCEPT ![p].conn = c, ![p].txn = @ + 1]
    /\ pc' = [pc EXCEPT ![p] = "op_setUserId"]
    /\ UNCHANGED coreVars
    /\ UNCHANGED <<req, response, log, thrown, stmt, jobs, bookIsbn13, bookFields>>

OpSetUserId(p) ==
    /\ pc[p] = "op_setUserId"
    /\ conns' = [conns EXCEPT ![loc[p].conn] =
                   SetConfig(@, "uid",
                             SettingId(CallHasCtx(p), req[p].userId), TRUE)]
    /\ pc' = [pc EXCEPT ![p] = "op_setRole"]
    /\ UNCHANGED coreVars
    /\ UNCHANGED <<req, loc, response, log, thrown, stmt, jobs, bookIsbn13, bookFields>>

OpSetRole(p) ==
    /\ pc[p] = "op_setRole"
    /\ conns' = [conns EXCEPT ![loc[p].conn] =
                   SetConfig(@, "role",
                             SettingRole(CallHasCtx(p), req[p].role), TRUE)]
    /\ pc' = [pc EXCEPT ![p] = "op_callback"]
    /\ UNCHANGED coreVars
    /\ UNCHANGED <<req, loc, response, log, thrown, stmt, jobs, bookIsbn13, bookFields>>

\* callback(tx): the statement of the repository method
OpCallback(p) ==
    /\ pc[p] = "op_callback"
    /\ IF StatementVia(req[p].method) = "tx"
         THEN loc' = [loc EXCEPT ![p].trace =
                         Append(@, Statement(p, loc[p].conn, TRUE))]
         ELSE \E d \in FreeConns :
                 loc' = [loc EXCEPT ![p].trace =
                            Append(@, Statement(p, d, FALSE))]
    /\ pc' = [pc EXCEPT ![p] = "op_commit"]
    /\ UNCHANGED coreVars
    /\ UNCHANGED <<req, response>>
    /\ UNCHANGED sideVars

\* COMMIT, the connection goes back to the pool
OpCommit(p) ==
    /\ pc[p] = "op_commit"
    /\ conns' = [conns EXCEPT ![loc[p].conn] =
                   [@ EXCEPT !.owner = 0, !.local = NoSettings]]
    /\ loc' = [loc EXCEPT ![p].conn = 0]
    /\ pc' = [pc EXCEPT ![p] = "op_next"]
    /\ UNCHANGED coreVars
    /\ UNCHANGED <<req, response, log, thrown, stmt, jobs, bookIsbn13, bookFields>>

\* a statement issued on this.db by a method that opens no transaction
OpDb(p) ==
    /\ pc[p] = "op_db"
    /\ \E d \in FreeConns :
          loc' = [loc EXCEPT ![p].trace = Append(@, Statement(p, d, FALSE))]
    /\ pc' = [pc EXCEPT ![p] = "op_next"]
    /\ UNCHANGED coreVars
    /\ UNCHANGED <<req, response>>
    /\ UNCHANGED sideVars

\* the operation returns its DTO
OpReturn(p) ==
    /\ pc[p] = "op_done"
    /\ Finish(p, req[p].handler, "OK", 0, 0)
    /\ UNCHANGED coreVars
    /\ UNCHANGED sideVars

\* ------------------------------------------------------------ RolesGuard
\* The handlers a request can be routed to.
Handlers == {"LoansController.create", "LoansController.returnLoan",
             "LoansController.findMyOngoingLoans",
             "LoansController.findAllOngoing", "LoansController.searchLoans",
             "UsersController.remove", "UsersController.getCurrentUser"}

\* Roles(...roles) = SetMetadata(ROLES_KEY, roles); a handler without the
\* decorator has no metadata under the key.
NoRolesMetadata == [declared |-> FALSE, roles |-> {}]

SetMetadata(roles) == [declared |-> TRUE, roles |-> roles]

RolesMetadata_CreateAdmitsAdmin(handler) ==
    CASE handler \in {"LoansController.create", "LoansController.returnLoan"}
            -> SetMetadata({"USER", "ADMIN"})
      [] handler = "LoansController.findMyOngoingLoans"
            -> SetMetadata({"USER"})
      [] handler \in {"LoansController.findAllOngoing",
                      "LoansController.searchLoans", "UsersController.remove"}
            -> SetMetadata({"ADMIN"})
      [] OTHER -> NoRolesMetadata

\* what reflector.getAllAndOverride(ROLES_KEY, ...) finds on each handler
RolesMetadata(handler) ==
    CASE handler \in {"LoansController.create", "LoansController.returnLoan",
                      "LoansController.findMyOngoingLoans"}
            -> SetMetadata({"USER"})
      [] handler \in {"LoansController.findAllOngoing",
                      "LoansController.searchLoans", "UsersController.remove"}
            -> SetMetadata({"ADMIN"})
      [] OTHER -> NoRolesMetadata

NotAuthenticated == "User not authenticated"
InsufficientPermissions == "Insufficient permissions"

\* canActivate: "" allows the request, any other value is the message of
\* the ForbiddenException it throws.  userId 0 is a request without a user.
canActivate(metadata, userId, role) ==
    IF ~metadata.declared THEN ""
    ELSE IF userId = 0 THEN NotAuthenticated
    ELSE IF role \in metadata.roles THEN ""
    ELSE InsufficientPermissions

\* a request reaches the guard, with the user the JWT strategy attached
GuardCall(p, handler, userId, role) ==
    /\ AllIdle
    /\ p = SerialProc
    /\ pc' = [pc EXCEPT ![p] = "guard_canActivate"]
    /\ req' = [req EXCEPT ![p] = [NoReq EXCEPT !.handler = handler,
                                               !.userId = userId,
                                               !.role = role]]
    /\ response' = NoResponse
    /\ UNCHANGED <<now, books, loans, returnCount, cards, users, tokens, loc>>
    /\ UNCHANGED sideVars

GuardCanActivate(p) ==
    /\ pc[p] = "guard_canActivate"
    /\ LET verdict == canActivate(RolesMetadata(req[p].handler),
                                  req[p].userId, req[p].role)
       IN  IF verdict = ""
             THEN /\ pc' = [pc EXCEPT ![p] = "guard_handler"]
                  /\ UNCHANGED <<req, loc, response>>
             ELSE /\ pc' = [pc EXCEPT ![p] = "idle"]
                  /\ req' = [req EXCEPT ![p] = NoReq]
                  /\ loc' = [loc EXCEPT ![p] = NoLoc]
                  /\ response' = [NoResponse EXCEPT
                                     !.proc = p, !.op = req[p].handler,
                                     !.status = "Forbidden",
                                     !.by = req[p].userId,
                                     !.role = req[p].role,
                                     !.msg = verdict]
    /\ UNCHANGED <<now, books, loans, returnCount, cards, users, tokens>>
    /\ UNCHANGED sideVars

\* the request was let through: the handler runs
GuardHandler(p) ==
    /\ pc[p] = "guard_handler"
    /\ Finish(p, req[p].handler, "Handled", 0, 0)
    /\ UNCHANGED <<now, books, loans, returnCount, cards, users, tokens>>
    /\ UNCHANGED sideVars

\* ----------------------------------- BooksService.createFromGoogleBooks
Isbns == 1 .. NumIsbns

CREATE_BOOK_FROM_GOOGLE_JOB_NAME == "create-book-from-google"

\* job.waitUntilFinished(this.queueEvents, 60000), in seconds
WaitTtl == 60

\* the clock is observed MaxWaitTicks times within one wait
WaitTick == WaitTtl \div MaxWaitTicks

NewJob(isbn) ==
    [name |-> CREATE_BOOK_FROM_GOOGLE_JOB_NAME, isbn |-> isbn,
     state |-> "waiting", vol |-> Null, kind |-> "", result |-> 0]

Finished(job) == job.state \in {"completed", "failed"}

WaitExpired_Never(startedAt, t) == FALSE

\* the ttl handed to waitUntilFinished has run out
WaitExpired(startedAt, t) == t - startedAt >= WaitTtl

\* the catch block: Conflict and NotFound are rethrown, anything else
\* becomes a NotFound
CatchKind(kind) ==
    IF kind \in {"Conflict", "NotFound"} THEN kind ELSE "NotFound"

\* booksRepository.existsByIsbn13
existsByIsbn13(isbn13) ==
    \E b \in DOMAIN bookIsbn13 : bookIsbn13[b] = isbn13

\* googleBooksQueue.add(CREATE_BOOK_FROM_GOOGLE_JOB_NAME, {isbn})
CfgCall(p, isbn) ==
    /\ pc[p] = "idle"
    /\ Len(jobs) < MaxJobs
    /\ jobs' = Append(jobs, NewJob(isbn))
    /\ pc' = [pc EXCEPT ![p] = "cfg_queued"]
    /\ req' = [req EXCEPT ![p] = [NoReq EXCEPT !.isbn = isbn]]
    /\ loc' = [loc EXCEPT ![p] = [NoLoc EXCEPT !.jobId = Len(jobs) + 1]]
    /\ response' = NoResponse
    /\ UNCHANGED coreVars
    /\ UNCHANGED <<log, thrown, conns, stmt, bookIsbn13, bookFields>>

\* logger.log, then job.waitUntilFinished starts its timer
CfgWaitStart(p) ==
    /\ pc[p] = "cfg_queued"
    /\ pc' = [pc EXCEPT ![p] = "cfg_wait"]
    /\ loc' = [loc EXCEPT ![p].at = now]
    /\ UNCHANGED <<req, response>>
    /\ UNCHANGED coreVars
    /\ UNCHANGED sideVars

\* the completed event arrives: return result
WaitCompleted(p) ==
    /\ pc[p] = "cfg_wait"
    /\ jobs[loc[p].jobId].state = "completed"
    /\ Finish(p, "createFromGoogleBooks", "OK", req[p].isbn,
              jobs[loc[p].jobId].result)
    /\ UNCHANGED coreVars
    /\ UNCHANGED sideVars

\* the failed event arrives: the rejection carries the job's failure
\* reason; the queue may or may not keep the class of the exception the
\* worker threw
WaitFailed(p) ==
    /\ pc[p] = "cfg_wait"
    /\ jobs[loc[p].jobId].state = "failed"
    /\ \E delivered \in {jobs[loc[p].jobId].kind, "Error"} :
          Finish(p, "createFromGoogleBooks", CatchKind(delivered),
                 req[p].isbn, 0)
    /\ UNCHANGED coreVars
    /\ UNCHANGED sideVars

\* no event arrived within the ttl: waitUntilFinished rejects with an Error
WaitTimeout(p) ==
    /\ pc[p] = "cfg_wait"
    /\ WaitExpired(loc[p].at, now)
    /\ Finish(p, "createFromGoogleBooks", CatchKind("Error"), req[p].isbn, 0)
    /\ UNCHANGED coreVars
    /\ UNCHANGED sideVars

\* time passes while a caller waits
TickWait ==
    /\ \E p \in Procs : pc[p] = "cfg_wait" /\ now - loc[p].at < WaitTtl
    /\ now' = now + WaitTick
    /\ UNCHANGED <<books, loans, returnCount, cards, users, tokens, pc, req, loc,
                   response>>
    /\ UNCHANGED sideVars

\* ------------------------- GoogleBooksProcessor.processCreateFromGoogle
WorkerBusy ==
    \E j \in DOMAIN jobs : jobs[j].state \in {"active", "found", "checked"}

\* the worker picks up the oldest waiting job
WorkerTake(j) ==
    /\ jobs[j].state = "waiting"
    /\ ~WorkerBusy
    /\ \A k \in 1 .. (j - 1) : jobs[k].state # "waiting"
    /\ jobs' = [jobs EXCEPT ![j].state = "active"]
    /\ UNCHANGED coreVars
    /\ UNCHANGED <<pc, req, loc, response, log, thrown, conns, stmt,
                   bookIsbn13, bookFields>>

\* googleBooksService.searchByIsbn, then transformToBookData: the catalog
\* answers with a volume (carrying the ISBN-13 or not), with nothing, or
\* the request fails
WorkerSearch(j) ==
    /\ jobs[j].state = "active"
    /\ \/ \E v \in {jobs[j].isbn, Null} :
             jobs' = [jobs EXCEPT ![j].state = "found", ![j].vol = v]
       \/ jobs' = [jobs EXCEPT ![j].state = "failed", ![j].kind = "NotFound"]
       \/ jobs' = [jobs EXCEPT ![j].state = "failed",
                               ![j].kind = "InternalServerError"]
    /\ UNCHANGED coreVars
    /\ UNCHANGED <<pc, req, loc, response, log, thrown, conns, stmt,
                   bookIsbn13, bookFields>>

\* if (bookData.isbn13) existsByIsbn13 -> ConflictException
WorkerExists(j) ==
    /\ jobs[j].state = "found"
    /\ IF jobs[j].vol # Null /\ existsByIsbn13(jobs[j].vol)
         THEN jobs' = [jobs EXCEPT ![j].state = "failed",
                                   ![j].kind = "Conflict"]
         ELSE jobs' = [jobs EXCEPT ![j].state = "checked"]
    /\ UNCHANGED coreVars
    /\ UNCHANGED <<pc, req, loc, response, log, thrown, conns, stmt,
                   bookIsbn13, bookFields>>

\* the other columns of a book created from a catalog record
CreatedBook ==
    [f \in Fields \ {"isbn13"} |->
        IF f \in ExternalFields THEN FromCatalog ELSE Null]

\* booksRepository.create(bookData); return createdBook
WorkerCreate(j) ==
    /\ jobs[j].state = "checked"
    /\ bookIsbn13' = Append(bookIsbn13, jobs[j].vol)
    /\ bookFields' = Append(bookFields, CreatedBook)
    /\ books' = books \cup {Len(bookIsbn13) + 1}
    /\ jobs' = [jobs EXCEPT ![j].state = "completed",
                            ![j].result = Len(bookIsbn13) + 1]
    /\ UNCHANGED <<now, loans, returnCount, cards, users, tokens>>
    /\ UNCHANGED <<pc, req, loc, response, log, thrown, conns, stmt>>

\* ------------------------------------------------- BooksService.update
\* the row of a book as booksRepository.findById returns it
Row(b) ==
    [f \in Fields |-> IF f = "isbn13" THEN bookIsbn13[b] ELSE bookFields[b][f]]

\* no row, and a dto with no key set
NoRow == [f \in Fields |-> Absent]

\* booksRepository.update(id, updateData): the keys that are not undefined
\* are set, the other columns keep the value the row has at the write
ApplyUpdate(row, dto) ==
    [f \in Fields |-> IF dto[f] # Absent THEN dto[f] ELSE row[f]]

WriteRow(b, row) ==
    /\ bookIsbn13' = [bookIsbn13 EXCEPT ![b] = row["isbn13"]]
    /\ bookFields' = [bookFields EXCEPT
                         ![b] = [f \in Fields \ {"isbn13"} |-> row[f]]]

\* updateBookDto.isbn13 && updateBookDto.isbn13 !== existingBook.isbn13
IsbnChanges(dto, existing) ==
    /\ dto["isbn13"] \notin {Absent, Null}
    /\ dto["isbn13"] # existing["isbn13"]

\* the columns a librarian edits by hand
EditableFields == {"description", "genre"}

EditDto(field) ==
    [f \in Fields |-> IF f = field THEN StoredBefore ELSE Absent]

\* PATCH /books/:id with one column
EditCall(p, bookId, field) ==
    /\ pc[p] = "idle"
    /\ pc' = [pc EXCEPT ![p] = "edit_findById"]
    /\ req' = [req EXCEPT ![p] = [NoReq EXCEPT !.bookId = bookId,
                                               !.field = field]]
    /\ loc' = [loc EXCEPT ![p] = NoLoc]
    /\ response' = NoResponse
    /\ UNCHANGED coreVars
    /\ UNCHANGED sideVars

\* existingBook = booksRepository.findById(id); the dto carries no ISBN-13,
\* so the conflict check is skipped
EditFindById(p) ==
    /\ pc[p] = "edit_findById"
    /\ IF ~BooksFindById(req[p].bookId)
         THEN Finish(p, "update", "NotFound", req[p].bookId, 0)
         ELSE /\ pc' = [pc EXCEPT ![p] = "edit_update"]
              /\ UNCHANGED <<req, loc, response>>
    /\ UNCHANGED coreVars
    /\ UNCHANGED sideVars

\* booksRepository.update(id, updateData)
EditUpdate(p) ==
    /\ pc[p] = "edit_update"
    /\ WriteRow(req[p].bookId,
                ApplyUpdate(Row(req[p].bookId), EditDto(req[p].field)))
    /\ Finish(p, "update", "OK", req[p].bookId, req[p].bookId)
    /\ UNCHANGED coreVars
    /\ UNCHANGED <<log, thrown, conns, stmt, jobs>>

\* ----------------------------------- BooksService.enrichFromGoogleBooks
ENRICH_BOOK_JOB_NAME == "enrich-book"

\* the job as queued: data {bookId, isbn13, isbn10}; book, rec and dto are
\* the processor's locals (the row read, the transformed catalog record,
\* updateData)
NewEnrichJob(bookId, isbn13, isbn10) ==
    [name |-> ENRICH_BOOK_JOB_NAME, bookId |-> bookId, isbn13 |-> isbn13,
     isbn10 |-> isbn10, state |-> "waiting", book |-> NoRow, rec |-> NoRow,
     dto |-> NoRow, kind |-> ""]

\* book.isbn13 || undefined
OrUndefined(v) == IF v = Null THEN Absent ELSE v

EnrichCall(p, bookId) ==
    /\ pc[p] = "idle"
    /\ Len(jobs) < MaxJobs
    /\ pc' = [pc EXCEPT ![p] = "enrich_findOne"]
    /\ req' = [req EXCEPT ![p] = [NoReq EXCEPT !.bookId = bookId]]
    /\ loc' = [loc EXCEPT ![p] = NoLoc]
    /\ response' = NoResponse
    /\ UNCHANGED coreVars
    /\ UNCHANGED sideVars

\* book = findOne(id); a book with neither ISBN is refused
EnrichFindOne(p) ==
    /\ pc[p] = "enrich_findOne"
    /\ IF ~BooksFindById(req[p].bookId)
         THEN Finish(p, "enrichFromGoogleBooks", "NotFound", req[p].bookId, 0)
         ELSE LET book == Row(req[p].bookId) IN
              IF book["isbn13"] = Null /\ book["isbn10"] = Null
                THEN Finish(p, "enrichFromGoogleBooks", "NotFound",
                            req[p].bookId, 0)
                ELSE /\ pc' = [pc EXCEPT ![p] = "enrich_add"]
                     /\ loc' = [loc EXCEPT
                                  ![p].isbn13 = OrUndefined(book["isbn13"]),
                                  ![p].isbn10 = OrUndefined(book["isbn10"])]
                     /\ UNCHANGED <<req, response>>
    /\ UNCHANGED coreVars
    /\ UNCHANGED sideVars

\* googleBooksQueue.add(ENRICH_BOOK_JOB_NAME, ...); return book
EnrichAdd(p) ==
    /\ pc[p] = "enrich_add"
    /\ jobs' = Append(jobs, NewEnrichJob(req[p].bookId, loc[p].isbn13,
                                         loc[p].isbn10))
    /\ Finish(p, "enrichFromGoogleBooks", "OK", req[p].bookId, req[p].bookId)
    /\ UNCHANGED coreVars
    /\ UNCHANGED <<log, thrown, conns, stmt, bookIsbn13, bookFields>>

\* ------------------------------- GoogleBooksProcessor.processEnrichBook
\* the volumes the external catalog may answer with: a volume supplies
\* some of the catalog fields and leaves the others null
SuppliedSets ==
    {{}, {"description", "coverImageUrl"},
     {"genre", "publicationDate", "isbn10"}, CatalogFields \ {"isbn13"}}

Volumes ==
    {[f \in CatalogFields |->
         IF f = "isbn13" THEN i
         ELSE IF f \in S THEN FromCatalog ELSE Null] :
       S \in SuppliedSets, i \in {Null} \cup Isbns}

\* GoogleBooksService.transformToBookData
transformToBookData(volume) ==
    [f \in Fields |-> IF f \in ExternalFields THEN FromCatalog ELSE volume[f]]

\* the ISBN the catalog is searched by: data.isbn13, data.isbn10,
\* book.isbn13, book.isbn10, in this order; Absent when there is none
SearchKey(job) ==
    IF job.isbn13 # Absent THEN job.isbn13
    ELSE IF job.isbn10 # Absent THEN job.isbn10
    ELSE IF job.book["isbn13"] # Null THEN job.book["isbn13"]
    ELSE IF job.book["isbn10"] # Null THEN job.book["isbn10"]
    ELSE Absent

UpdateData_TakesAll(book, enrichedData) ==
    [f \in Fields |->
        IF f \in ExternalFields THEN enrichedData[f]
        ELSE IF enrichedData[f] # Null THEN enrichedData[f] ELSE Absent]

\* updateData: a catalog field is taken when the book read has none and
\* the record has one; the external fields are always taken
UpdateData(book, enrichedData) ==
    [f \in Fields |->
        IF f \in ExternalFields THEN enrichedData[f]
        ELSE IF book[f] = Null /\ enrichedData[f] # Null
               THEN enrichedData[f] ELSE Absent]

EnrichBusy ==
    \E j \in DOMAIN jobs :
        jobs[j].state \in {"e_findOne", "e_search", "e_findById", "e_exists",
                           "e_write"}

\* what is left of a job that is over
Settled(job, state, kind) ==
    [job EXCEPT !.state = state, !.kind = kind, !.book = NoRow,
                !.rec = NoRow, !.dto = NoRow]

EnrichFrame ==
    /\ UNCHANGED coreVars
    /\ UNCHANGED <<pc, req, loc, response, log, thrown, conns, stmt>>

\* the worker picks up the oldest waiting job
EnrichTake(j) ==
    /\ jobs[j].state = "waiting"
    /\ ~EnrichBusy
    /\ \A k \in 1 .. (j - 1) : jobs[k].state # "waiting"
    /\ jobs' = [jobs EXCEPT ![j].state = "e_findOne"]
    /\ EnrichFrame
    /\ UNCHANGED <<bookIsbn13, bookFields>>

\* book = booksService.findOne(data.bookId)
EnrichRead(j) ==
    /\ jobs[j].state = "e_findOne"
    /\ IF ~BooksFindById(jobs[j].bookId)
         THEN jobs' = [jobs EXCEPT ![j] = Settled(@, "failed", "NotFound")]
         ELSE LET job == [jobs[j] EXCEPT !.book = Row(jobs[j].bookId)] IN
              IF SearchKey(job) = Absent
                THEN jobs' = [jobs EXCEPT
                                 ![j] = Settled(@, "completed", "skipped")]
                ELSE jobs' = [jobs EXCEPT ![j] = [job EXCEPT
                                                     !.state = "e_search"]]
    /\ EnrichFrame
    /\ UNCHANGED <<bookIsbn13, bookFields>>

\* googleBooksService.searchByIsbn, transformToBookData and the six tests
\* that fill updateData: the catalog answers with a volume or with nothing,
\* or the request fails
EnrichSearch(j) ==
    /\ jobs[j].state = "e_search"
    /\ \/ \E v \in Volumes :
             LET enrichedData == transformToBookData(v) IN
             jobs' = [jobs EXCEPT
                         ![j].state = "e_findById",
                         ![j].rec = enrichedData,
                         ![j].dto = UpdateData(jobs[j].book, enrichedData)]
       \/ jobs' = [jobs EXCEPT ![j] = Settled(@, "completed", "skipped")]
       \/ jobs' = [jobs EXCEPT
                      ![j] = Settled(@, "failed", "InternalServerError")]
    /\ EnrichFrame
    /\ UNCHANGED <<bookIsbn13, bookFields>>

\* booksService.update: existingBook = booksRepository.findById(id)
EnrichFindById(j) ==
    /\ jobs[j].state = "e_findById"
    /\ IF ~BooksFindById(jobs[j].bookId)
         THEN jobs' = [jobs EXCEPT ![j] = Settled(@, "failed", "NotFound")]
         ELSE IF IsbnChanges(jobs[j].dto, Row(jobs[j].bookId))
                THEN jobs' = [jobs EXCEPT ![j].state = "e_exists"]
                ELSE jobs' = [jobs EXCEPT ![j].state = "e_write"]
    /\ EnrichFrame
    /\ UNCHANGED <<bookIsbn13, bookFields>>

\* booksRepository.existsByIsbn13(updateBookDto.isbn13) -> ConflictException
EnrichExists(j) ==
    /\ jobs[j].state = "e_exists"
    /\ IF existsByIsbn13(jobs[j].dto["isbn13"])
         THEN jobs' = [jobs EXCEPT ![j] = Settled(@, "failed", "Conflict")]
         ELSE jobs' = [jobs EXCEPT ![j].state = "e_write"]
    /\ EnrichFrame
    /\ UNCHANGED <<bookIsbn13, bookFields>>

\* booksRepository.update(id, updateData); the job is over
EnrichWrite(j) ==
    /\ jobs[j].state = "e_write"
    /\ WriteRow(jobs[j].bookId,
                ApplyUpdate(Row(jobs[j].bookId), jobs[j].dto))
    /\ jobs' = [jobs EXCEPT ![j] = Settled(@, "completed", "enriched")]
    /\ EnrichFrame


\* ------------------------------------------------------- specifications
\* Loan workflow, one invocation at a time: a call starts only when no
\* other invocation is in flight.
LoanStep(p) ==
    \/ CreateFindBook(p)
    \/ CreateIsBookLoaned(p)
    \/ CreateInsert(p)
    \/ ReturnFindById(p)
    \/ ReturnUpdate(p)

LoanCall(p) ==
    \/ \E b \in BookIds, d \in {Absent} \cup SuppliedDueAt,
          u \in UserIds, r \in USER_ROLES : CreateCall(p, b, d, u, r)
    \/ \E l \in LoanIds, u \in UserIds, r \in USER_ROLES :
          ReturnCall(p, l, u, r)

NextLoans ==
    \/ TickMinor
    \/ TickMajor
    \/ AllIdle /\ LoanCall(SerialProc)
    \/ \E p \in Procs : LoanStep(p)

SpecLoans == Init /\ [][NextLoans]_vars

\* Registration workflow, one invocation at a time.
RegisterStep(p) ==
    \/ RegisterFindFirstFree(p)
    \/ RegisterExistsByEmail(p)
    \/ RegisterCreateUser(p)
    \/ RegisterAssign(p)

NextRegister ==
    \/ TickMinor
    \/ TickMajor
    \/ AllIdle /\ \E e \in Emails : RegisterCall(SerialProc, e)
    \/ \E p \in Procs : RegisterStep(p)

SpecRegister == Init /\ [][NextRegister]_vars

\* Registration and the card allocator's assignToUser, one invocation at a
\* time.
NextCards ==
    \/ TickMinor
    \/ TickMajor
    \/ AllIdle /\ \E e \in Emails : RegisterCall(SerialProc, e)
    \/ AllIdle /\ \E c \in CardIds, u \in DOMAIN users :
                     AssignCall(SerialProc, c, u)
    \/ \E p \in Procs : RegisterStep(p)
    \/ \E p \in Procs : AssignUpdate(p)

SpecCards == Init /\ [][NextCards]_vars

\* Registration and login, one invocation at a time.
LoginStep(p) ==
    \/ LoginFindByEmail(p)
    \/ LoginCompare(p)

NextAuth ==
    \/ TickMinor
    \/ AllIdle /\ \E e \in Emails : RegisterCall(SerialProc, e)
    \/ AllIdle /\ \E e \in Emails, w \in Passwords :
                     LoginCall(SerialProc, e, w)
    \/ \E p \in Procs : RegisterStep(p)
    \/ \E p \in Procs : LoginStep(p)

SpecAuth == Init /\ [][NextAuth]_vars

\* Calls of decorated methods, one at a time.
NextErrors ==
    \/ AllIdle /\ \E site \in WrapSites, emsg \in {"", "while saving"},
                     onError \in {"none", "resolves", "throws"},
                     inner \in {NoError} \cup InnerErrors :
                     WrapCall(SerialProc, site, emsg, onError, inner)
    \/ \E p \in Procs : WehTry(p)
    \/ \E p \in Procs : WehOnError(p)

SpecErrors == Init /\ [][NextErrors]_vars

\* Repository calls, one at a time.
TxStep(p) ==
    \/ TxBegin(p)
    \/ TxSetUserId(p)
    \/ TxSetRole(p)
    \/ TxCallback(p)
    \/ TxCommit(p)
    \/ DbStatement(p)

NextTx ==
    \/ AllIdle /\ \E m \in RepoMethods : RepoCall(SerialProc, m, FALSE, 0, "")
    \/ AllIdle /\ \E m \in RepoMethods, u \in {Absent} \cup UserIds,
                     r \in {""} \cup USER_ROLES :
                     RepoCall(SerialProc, m, TRUE, u, r)
    \/ \E p \in Procs : TxStep(p)

SpecTx == Init /\ [][NextTx]_vars

\* requests routed through RolesGuard
NextGuard ==
    \/ TickMinor
    \/ \E p \in Procs, h \in Handlers :
          \/ GuardCall(p, h, 0, "")
          \/ \E u \in UserIds, r \in USER_ROLES : GuardCall(p, h, u, r)
    \/ \E p \in Procs : GuardCanActivate(p)
    \/ \E p \in Procs : GuardHandler(p)

SpecGuard == Init /\ [][NextGuard]_vars

\* callers of createFromGoogleBooks and the queue's worker
NextGoogle ==
    \/ TickWait
    \/ \E p \in Procs, i \in Isbns : CfgCall(p, i)
    \/ \E p \in Procs : CfgWaitStart(p)
    \/ \E p \in Procs : WaitCompleted(p)
    \/ \E p \in Procs : WaitFailed(p)
    \/ \E p \in Procs : WaitTimeout(p)
    \/ \E j \in DOMAIN jobs : WorkerTake(j)
    \/ \E j \in DOMAIN jobs : WorkerSearch(j)
    \/ \E j \in DOMAIN jobs : WorkerExists(j)
    \/ \E j \in DOMAIN jobs : WorkerCreate(j)

SpecGoogle == Init /\ [][NextGoogle]_vars

\* The event loop runs the caller's continuations and its timers: time
\* passes while a caller waits and a settled wait is resumed.  Nothing is
\* assumed of the worker or of the catalog.
CallerStep(p) ==
    CfgWaitStart(p) \/ WaitCompleted(p) \/ WaitFailed(p) \/ WaitTimeout(p)

SpecGoogleLive ==
    /\ SpecGoogle
    /\ WF_vars(TickWait)
    /\ \A p \in Procs : WF_vars(CallerStep(p))

\* create invocations interleaved: request handlers run concurrently, a
\* call may start while another is between two store calls.  The guarded
\* handler admits the role USER only.
CreateStep(p) ==
    \/ CreateFindBook(p)
    \/ CreateIsBookLoaned(p)
    \/ CreateInsert(p)

NextCreateRace ==
    \/ TickMinor
    \/ \E p \in Procs, b \in BookIds, u \in UserIds :
          CreateCall(p, b, Absent, u, "USER")
    \/ \E p \in Procs : CreateStep(p)

SpecCreateRace == Init /\ [][NextCreateRace]_vars

\* register invocations interleaved
NextRegisterRace ==
    \/ TickMinor
    \/ \E p \in Procs, e \in Emails : RegisterCall(p, e)
    \/ \E p \in Procs : RegisterStep(p)

SpecRegisterRace == Init /\ [][NextRegisterRace]_vars

\* Registration, one invocation at a time, over a store that may fail the
\* card update.
NextRegisterFaulty ==
    \/ TickMinor
    \/ AllIdle /\ \E e \in Emails : RegisterCall(SerialProc, e)
    \/ \E p \in Procs : RegisterStep(p)
    \/ \E p \in Procs : RegisterAssignFails(p)

SpecRegisterFaulty == Init /\ [][NextRegisterFaulty]_vars

\* Workflow operations as sequences of repository calls, one operation at
\* a time: a service method called with or without currentUser, and a
\* repository method called with any rlsContext.
OpStep(p) ==
    \/ OpNext(p)
    \/ OpBegin(p)
    \/ OpSetUserId(p)
    \/ OpSetRole(p)
    \/ OpCallback(p)
    \/ OpCommit(p)
    \/ OpDb(p)
    \/ OpReturn(p)

NextOps ==
    \/ AllIdle /\ \E op \in Operations : OpCall(SerialProc, op, FALSE, 0, "")
    \/ AllIdle /\ \E op \in Operations \ {"LoansRepository.findOngoing"},
                     u \in UserIds, r \in USER_ROLES :
                     OpCall(SerialProc, op, TRUE, u, r)
    \/ AllIdle /\ \E u \in {Absent} \cup UserIds, r \in {""} \cup USER_ROLES :
                     OpCall(SerialProc, "LoansRepository.findOngoing",
                            TRUE, u, r)
    \/ \E p \in Procs : OpStep(p)

SpecOps == Init /\ [][NextOps]_vars

\* returnLoan invocations by the borrower interleaved, on loans created
\* one at a time
ReturnStep(p) ==
    \/ ReturnFindById(p)
    \/ ReturnUpdate(p)

NextReturnRace ==
    \/ TickMinor
    \/ TickMajor
    \/ /\ AllIdle
       /\ Len(loans) < MaxLoans
       /\ \E b \in BookIds, u \in UserIds :
             CreateCall(SerialProc, b, Absent, u, "USER")
    \/ \E p \in Procs : CreateStep(p)
    \/ \E p \in Procs, l \in DOMAIN loans :
          ReturnCall(p, l, loans[l].userId, "USER")
    \/ \E p \in Procs : ReturnStep(p)

SpecReturnRace == Init /\ [][NextReturnRace]_vars

\* Enrichment: requests to enrich and hand edits of a book come one at a
\* time and run beside the queue's worker, which works one job at a time.
NextEnrich ==
    \/ AllIdle /\ \E b \in BookIds : EnrichCall(SerialProc, b)
    \/ \E p \in Procs : EnrichFindOne(p)
    \/ \E p \in Procs : EnrichAdd(p)
    \/ AllIdle /\ \E b \in BookIds, f \in EditableFields :
          EditCall(SerialProc, b, f)
    \/ \E p \in Procs : EditFindById(p)
    \/ \E p \in Procs : EditUpdate(p)
    \/ \E j \in DOMAIN jobs : EnrichTake(j)
    \/ \E j \in DOMAIN jobs : EnrichRead(j)
    \/ \E j \in DOMAIN jobs : EnrichSearch(j)
    \/ \E j \in DOMAIN jobs : EnrichFindById(j)
    \/ \E j \in DOMAIN jobs : EnrichExists(j)
    \/ \E j \in DOMAIN jobs : EnrichWrite(j)

SpecEnrich == Init /\ [][NextEnrich]_vars

\* ================================================================ claims
Moved(p) == pc'[p] # pc[p]

Terminal == {"RETURNED", "LATE"}

\* C1: with one create/returnLoan invocation at a time, every book has at
\* most one loan row whose returnedAt is null.
C1_OneOngoingLoanPerBook ==
    \A b \in BookIds : Cardinality(OngoingLoansOf(b)) <= 1

\* a create was turned away because the book is out
C1_Witness ==
    /\ response.op = "create"
    /\ response.status = "BadRequest"
    /\ Cardinality(OngoingLoansOf(response.arg)) = 1

\* C2: the borrower's first returnLoan on a loan goes through and changes
\* it; the borrower's next returnLoan on the same loan answers BadRequest
\* and leaves every loan as it was; a loan is never changed twice.
C2_ReturnTwiceRejected ==
    [][\A p \in Procs : \A l \in DOMAIN loans :
         /\ ( /\ pc[p] = "return_findById" /\ Moved(p)
              /\ req[p].loanId = l /\ req[p].userId = loans[l].userId )
            => IF returnCount[l] = 0
                 THEN pc'[p] = "return_update" /\ loans' = loans
                 ELSE /\ pc'[p] = "idle"
                      /\ response'.op = "returnLoan"
                      /\ response'.status = "BadRequest"
                      /\ loans' = loans
                      /\ returnCount' = returnCount
         /\ (pc[p] = "return_update" /\ Moved(p) /\ req[p].loanId = l)
            => /\ response'.status = "OK"
               /\ loans[l].returnedAt = Null
               /\ loans'[l].returnedAt # Null
               /\ returnCount'[l] = 1
         /\ returnCount'[l] <= 1]_vars

\* the borrower's second returnLoan on a returned loan has been answered
C2_Witness ==
    /\ response.op = "returnLoan"
    /\ response.status = "BadRequest"
    /\ response.arg \in DOMAIN loans
    /\ returnCount[response.arg] = 1
    /\ response.by = loans[response.arg].userId

\* C3: a loan row appears as ONGOING with returnedAt null; its status and
\* returnedAt change only in a successful returnLoan, from ONGOING to
\* RETURNED or LATE; a RETURNED or LATE row never changes again and no
\* row disappears.
C3_LoanLifecycle ==
    [][/\ Len(loans') >= Len(loans)
       /\ \A i \in DOMAIN loans' :
            IF i \notin DOMAIN loans
              THEN /\ loans'[i].status = "ONGOING"
                   /\ loans'[i].returnedAt = Null
                   /\ response'.op = "create"
              ELSE /\ loans[i].status \in Terminal => loans'[i] = loans[i]
                   /\ ( \/ loans'[i].status # loans[i].status
                        \/ loans'[i].returnedAt # loans[i].returnedAt )
                      => /\ loans[i].status = "ONGOING"
                         /\ loans[i].returnedAt = Null
                         /\ loans'[i].status \in Terminal
                         /\ loans'[i].returnedAt # Null
                         /\ response'.op = "returnLoan"
                         /\ response'.status = "OK"
                         /\ response'.id = i]_vars

\* a returned loan is still as returned after a later create for its book
C3_Witness ==
    \E i, j \in DOMAIN loans :
        /\ i < j
        /\ loans[i].bookId = loans[j].bookId
        /\ loans[i].status \in Terminal
        /\ loans[i].returnedAt # Null
        /\ returnCount[i] = 1

\* C4: a successful returnLoan that read the clock at `at` stores
\* returnedAt = at and status LATE exactly when dueAt is not null and
\* at > dueAt, RETURNED otherwise (at = dueAt is RETURNED, null dueAt is
\* RETURNED); hence every returned row is LATE iff returnedAt > dueAt.
C4_LateIffAfterDue ==
    [][/\ \A p \in Procs :
            (pc[p] = "return_update" /\ Moved(p) /\ response'.status = "OK")
            => /\ loans'[req[p].loanId].returnedAt = loc[p].at
               /\ loans'[req[p].loanId].status =
                    IF /\ loans[req[p].loanId].dueAt # Null
                       /\ loc[p].at > loans[req[p].loanId].dueAt
                      THEN "LATE" ELSE "RETURNED"
       /\ \A p \in Procs :
            (pc[p] = "return_findById" /\ pc'[p] = "return_update")
            => loc'[p].at = now
       /\ \A i \in DOMAIN loans' :
            loans'[i].returnedAt # Null
            => /\ loans'[i].status \in Terminal
               /\ loans'[i].status = "LATE"
                  <=> ( /\ loans'[i].dueAt # Null
                        /\ loans'[i].returnedAt > loans'[i].dueAt )]_vars

\* one loan returned exactly at dueAt (RETURNED) and one returned one time
\* unit after its dueAt (LATE)
C4_Witness ==
    \E i, j \in DOMAIN loans :
        /\ loans[i].dueAt # Null
        /\ loans[i].returnedAt = loans[i].dueAt
        /\ loans[i].status = "RETURNED"
        /\ loans[j].dueAt # Null
        /\ loans[j].returnedAt = loans[j].dueAt + 1
        /\ loans[j].status = "LATE"

\* C5: a create whose loaned-check finds a loan of that book with
\* returnedAt null answers BadRequest, appends no row and changes no row,
\* whoever asks; no create gets to its insert while the book is out.
C5_LoanedBookRejected ==
    [][\A p \in Procs :
         /\ ( /\ pc[p] = "create_isBookLoaned" /\ Moved(p)
              /\ OngoingLoansOf(req[p].bookId) # {} )
            => /\ pc'[p] = "idle"
               /\ response'.op = "create"
               /\ response'.status = "BadRequest"
               /\ loans' = loans
         /\ (pc[p] = "create_insert" /\ Moved(p))
            => OngoingLoansOf(req[p].bookId) = {}]_vars

\* a user other than the current borrower was turned away
C5_Witness ==
    /\ response.op = "create"
    /\ response.status = "BadRequest"
    /\ \E i \in OngoingLoansOf(response.arg) : loans[i].userId # response.by

\* C6: returnLoan on an ONGOING loan by a user who is not its borrower
\* answers Forbidden and leaves the loan as it was, whatever the role of
\* the requester; a loan is only ever returned by its borrower.
C6_OnlyBorrowerReturns ==
    [][\A p \in Procs : \A l \in DOMAIN loans :
         /\ ( /\ pc[p] = "return_findById" /\ Moved(p)
              /\ req[p].loanId = l
              /\ loans[l].returnedAt = Null
              /\ req[p].userId # loans[l].userId )
            => /\ pc'[p] = "idle"
               /\ response'.op = "returnLoan"
               /\ response'.status = "Forbidden"
               /\ loans' = loans
         /\ loans'[l] # loans[l]
            => /\ response'.op = "returnLoan"
               /\ response'.by = loans[l].userId]_vars

\* an ADMIN who is not the borrower was refused, the loan is still ONGOING
C6_Witness ==
    /\ response.op = "returnLoan"
    /\ response.status = "Forbidden"
    /\ response.role = "ADMIN"
    /\ response.arg \in DOMAIN loans
    /\ loans[response.arg].userId # response.by
    /\ loans[response.arg].status = "ONGOING"
    /\ loans[response.arg].returnedAt = Null

\* C7: a create for a bookId with no book row answers NotFound at the book
\* lookup, never reaches the loaned-check and appends no loan; a returnLoan
\* for a loan id with no row answers NotFound and changes no loan.
C7_NotFound ==
    [][\A p \in Procs :
         /\ ( /\ pc[p] = "create_findBook" /\ Moved(p)
              /\ req[p].bookId \notin books )
            => /\ pc'[p] = "idle"
               /\ response'.op = "create"
               /\ response'.status = "NotFound"
               /\ loans' = loans
         /\ pc'[p] \in {"create_isBookLoaned", "create_insert"}
            => req'[p].bookId \in books
         /\ ( /\ pc[p] = "return_findById" /\ Moved(p)
              /\ req[p].loanId \notin DOMAIN loans )
            => /\ pc'[p] = "idle"
               /\ response'.op = "returnLoan"
               /\ response'.status = "NotFound"
               /\ loans' = loans
               /\ returnCount' = returnCount]_vars

\* a create for a missing book has been answered NotFound
C7_Witness ==
    /\ response.op = "create"
    /\ response.status = "NotFound"
    /\ response.arg \notin books
    /\ \A i \in DOMAIN loans : loans[i].bookId # response.arg

C9_NoFreeCard ==
    [][\A p \in Procs :
         ( /\ pc[p] = "register_findFirstFree" /\ Moved(p)
           /\ \A c \in DOMAIN cards : cards[c].status # "FREE" )
         => /\ pc'[p] = "idle"
            /\ response'.op = "register"
            /\ response'.status = "ServiceUnavailable"
            /\ users' = users
            /\ cards' = cards
            /\ tokens' = tokens]_vars

\* a register was refused after every card had been handed out
C9_Witness ==
    /\ response.op = "register"
    /\ response.status = "ServiceUnavailable"
    /\ \A c \in DOMAIN cards : cards[c].status = "IN_USE"
    /\ Len(users) = NumCards
    /\ Cardinality(tokens) = NumCards

\* C10: the card table changes only in the step that completes a register
\* successfully, and then exactly one card changes: the one its lookup
\* returned goes from FREE to IN_USE with userId = the id of the user
\* that call created and a non-null assignedAt; every successful register
\* makes that change.
C10_OneCardPerRegister ==
    [][/\ cards' # cards
          => \E p \in Procs :
               /\ pc[p] = "register_assign" /\ pc'[p] = "idle"
               /\ response'.op = "register"
               /\ response'.status = "OK"
               /\ response'.proc = p
               /\ response'.id = loc[p].newUserId
               /\ loc[p].newUserId \in DOMAIN users
               /\ users[loc[p].newUserId].email = req[p].email
               /\ cards[loc[p].cardId].status = "FREE"
               /\ cards'[loc[p].cardId].status = "IN_USE"
               /\ cards'[loc[p].cardId].userId = loc[p].newUserId
               /\ cards'[loc[p].cardId].assignedAt # Null
               /\ \A d \in DOMAIN cards :
                    d # loc[p].cardId => cards'[d] = cards[d]
       /\ (response'.op = "register" /\ response'.status = "OK"
           /\ response # response')
          => cards' # cards]_vars

\* a register succeeded: its user holds one card and another card is
\* still FREE
C10_Witness ==
    /\ response.op = "register"
    /\ response.status = "OK"
    /\ Cardinality({c \in DOMAIN cards :
                      /\ cards[c].status = "IN_USE"
                      /\ cards[c].userId = response.id
                      /\ cards[c].assignedAt # Null}) = 1
    /\ \E d \in DOMAIN cards : cards[d] = FreeCard

\* C11: within one register invocation the steps run one after the other:
\* the card lookup has returned a card before the user creation starts,
\* the user row exists before the card update starts, and the token is
\* signed only once the card update has been applied; each step is entered
\* only from the step before it.
C11_RegisterStepOrder ==
    [][/\ \A p \in Procs :
            /\ (Moved(p) /\ pc'[p] = "register_findFirstFree")
               => pc[p] = "idle"
            /\ (Moved(p) /\ pc'[p] = "register_existsByEmail")
               => /\ pc[p] = "register_findFirstFree"
                  /\ loc'[p].cardId \in DOMAIN cards
            /\ (Moved(p) /\ pc'[p] = "register_createUser")
               => pc[p] = "register_existsByEmail"
            /\ (Moved(p) /\ pc'[p] = "register_assign")
               => /\ pc[p] = "register_createUser"
                  /\ loc'[p].newUserId \in DOMAIN users'
                  /\ loc'[p].cardId = loc[p].cardId
       /\ users' # users
          => \E p \in Procs :
               /\ pc[p] = "register_createUser"
               /\ loc[p].cardId \in DOMAIN cards
               /\ cards' = cards /\ tokens' = tokens
       /\ cards' # cards
          => \E p \in Procs :
               /\ pc[p] = "register_assign"
               /\ loc[p].newUserId \in DOMAIN users
       /\ tokens' # tokens
          => \E p \in Procs :
               /\ pc[p] = "register_assign"
               /\ users' = users
               /\ cards'[loc[p].cardId].status = "IN_USE"
               /\ cards'[loc[p].cardId].userId = loc[p].newUserId
               /\ tokens' = tokens \cup {[sub |-> loc[p].newUserId,
                                          email |-> req[p].email,
                                          role |-> DEFAULT_USER_ROLE]}]_vars

\* a register is between its user creation and its card update: the user
\* row is there, the card it looked up is still FREE, no token carries the
\* user
C11_Witness ==
    \E p \in Procs :
        /\ pc[p] = "register_assign"
        /\ loc[p].newUserId \in DOMAIN users
        /\ cards[loc[p].cardId] = FreeCard
        /\ \A t \in tokens : t.sub # loc[p].newUserId

\* C12: a register whose email already belongs to a user answers Conflict:
\* no user row is inserted, the card its lookup found stays FREE and
\* unassigned and no token is signed; with registers run one at a time no
\* two users ever share an email.
C12_DuplicateEmailConflict ==
    [][/\ \A p \in Procs :
            ( /\ pc[p] = "register_existsByEmail" /\ Moved(p)
              /\ \E i \in DOMAIN users : users[i].email = req[p].email )
            => /\ pc'[p] = "idle"
               /\ response'.op = "register"
               /\ response'.status = "Conflict"
               /\ users' = users
               /\ cards' = cards
               /\ cards'[loc[p].cardId] = FreeCard
               /\ tokens' = tokens
       /\ \A i, j \in DOMAIN users' :
            i # j => users'[i].email # users'[j].email]_vars

\* a register with a taken email was answered Conflict while a card was
\* FREE
C12_Witness ==
    /\ response.op = "register"
    /\ response.status = "Conflict"
    /\ Cardinality({i \in DOMAIN users : users[i].email = response.arg}) = 1
    /\ \E c \in DOMAIN cards : cards[c] = FreeCard

CardState ==
    /\ \A c \in DOMAIN cards :
         /\ cards[c].status = "IN_USE" => cards[c].userId # Null
         /\ cards[c].status = "FREE" => cards[c].userId = Null
    /\ \A c, d \in DOMAIN cards :
         ( /\ c # d
           /\ cards[c].status = "IN_USE" /\ cards[d].status = "IN_USE" )
         => cards[c].userId # cards[d].userId

\* C13: with registers run one at a time, a card once given to a user is
\* never given to another user, no user holds two IN_USE cards, an IN_USE
\* card has a userId and a FREE card has none.
C13_NoDoubleAssignment ==
    [][/\ CardState
       /\ CardState'
       /\ \A c \in DOMAIN cards :
            cards[c].userId # Null => cards'[c].userId = cards[c].userId]_vars

\* every card is in use, each by a different user
C13_Witness ==
    /\ \A c \in DOMAIN cards : cards[c].status = "IN_USE"
    /\ Cardinality({cards[c].userId : c \in DOMAIN cards}) = NumCards
    /\ Len(users) = NumCards

FreeCards == {c \in DOMAIN cards : cards[c].status = "FREE"}

\* C14: no step of register or of the allocator's assignToUser takes a
\* card from IN_USE back to FREE or clears its userId; the set of FREE
\* cards never grows.
C14_CardNeverFreed ==
    [][/\ \A c \in DOMAIN cards :
            /\ cards[c].status = "IN_USE" => cards'[c].status = "IN_USE"
            /\ cards[c].userId # Null => cards'[c].userId # Null
       /\ FreeCards' \subseteq FreeCards
       /\ Cardinality(FreeCards') <= Cardinality(FreeCards)]_vars

\* assignToUser has been applied to a card that was already IN_USE
C14_Witness ==
    /\ response.op = "assignToUser"
    /\ response.id \in DOMAIN cards
    /\ cards[response.id].status = "IN_USE"
    /\ cards[response.id].userId = response.by
    /\ \A c \in DOMAIN cards : cards[c].status = "IN_USE"
    /\ Len(users) = 1

\* What the caller of login sees of a failure.
LoginFailureSeen(r) == <<r.op, r.status, r.msg, r.id>>

\* C15: a login whose email matches no user fails at the lookup, without
\* the password comparison being performed; a login whose password does
\* not match the stored hash fails at the comparison; both failures show
\* the caller the same Unauthorized 'Invalid credentials' and neither
\* signs a token.
C15_LoginFailuresAlike ==
    [][\A p \in Procs :
         /\ ( /\ pc[p] = "login_findByEmail" /\ Moved(p)
              /\ \A i \in DOMAIN users : users[i].email # req[p].email )
            => /\ pc'[p] = "idle"
               /\ LoginFailureSeen(response') =
                    <<"login", "Unauthorized", "Invalid credentials", 0>>
               /\ tokens' = tokens
         /\ ( /\ pc[p] = "login_findByEmail" /\ Moved(p)
              /\ \E i \in DOMAIN users : users[i].email = req[p].email )
            => /\ pc'[p] = "login_compare"
               /\ users[loc'[p].newUserId].email = req[p].email
               /\ tokens' = tokens
         /\ ( /\ pc[p] = "login_compare" /\ Moved(p)
              /\ users[loc[p].newUserId].password[3] # req[p].password )
            => /\ pc'[p] = "idle"
               /\ LoginFailureSeen(response') =
                    <<"login", "Unauthorized", "Invalid credentials", 0>>
               /\ tokens' = tokens
         /\ ( /\ pc[p] = "login_compare" /\ Moved(p)
              /\ users[loc[p].newUserId].password[3] = req[p].password )
            => /\ response'.op = "login"
               /\ response'.status = "OK"
               /\ response'.id = loc[p].newUserId]_vars

\* a login with the email of a registered user and a wrong password was
\* refused, while another address is still unknown
C15_Witness ==
    /\ response.op = "login"
    /\ response.status = "Unauthorized"
    /\ response.msg = "Invalid credentials"
    /\ \E i \in DOMAIN users : users[i].email = response.arg
    /\ \E e \in Emails : \A i \in DOMAIN users : users[i].email # e

\* C16: assignToUser on a cardId that resolves to no card row answers
\* NotFound and changes no card.
C16_AssignMissingCardNotFound ==
    [][\A p \in Procs :
         ( /\ pc[p] = "assign_update" /\ Moved(p)
           /\ loc[p].cardId \notin DOMAIN cards )
         => /\ response'.op = "assignToUser"
            /\ response'.status = "NotFound"
            /\ cards' = cards]_vars

\* sub occurs in msg as a run of consecutive parts
Contains(msg, sub) ==
    \E i \in 1 .. (Len(msg) - Len(sub) + 1) :
        SubSeq(msg, i, i + Len(sub) - 1) = sub

\* C17: a call of a decorated method whose method throws an HttpException
\* ends with that very error object at the caller; one whose method throws
\* anything else ends with a new plain Error whose message, which is also
\* the line just logged, contains the service name, the method label and
\* the original error's message; a call whose method threw never returns
\* normally, and one whose method returned logs and throws nothing.  No
\* decorated method passes an onError callback; the statement covers the
\* calls whose callback, if any, resolves.
C17_ErrorsPreservedOrWrapped ==
    [][\A p \in Procs :
         ( /\ pc[p] \in {"weh_try", "weh_onError"} /\ pc'[p] = "idle"
           /\ req[p].wrap.onError # "throws" )
         => LET w == req[p].wrap
            IN  /\ w.inner = NoError
                   => /\ response'.status = "OK"
                      /\ thrown' = NoError
                      /\ log' = log
                /\ w.inner # NoError
                   => /\ response'.status = "Threw"
                      /\ thrown' # NoError
                      /\ Len(log') >= 1
                /\ (w.inner # NoError /\ w.inner.http)
                   => thrown' = w.inner
                /\ (w.inner # NoError /\ ~w.inner.http)
                   => /\ thrown'.id # w.inner.id
                      /\ thrown'.name = "Error"
                      /\ ~thrown'.http
                      /\ Contains(thrown'.message, <<w.svc>>)
                      /\ Contains(thrown'.message, <<w.meth>>)
                      /\ Contains(thrown'.message, w.inner.message)
                      /\ log'[Len(log')] = thrown'.message]_vars

\* a TypeError thrown in MembershipCardsService.findFirstFree reached the
\* caller as a new plain Error and was logged
C17_Witness ==
    /\ response.status = "Threw"
    /\ thrown.id = 2
    /\ thrown.name = "Error"
    /\ Contains(thrown.message, <<"MembershipCardsService">>)
    /\ Contains(thrown.message, <<"TypeError", ": ", "boom">>)
    /\ Len(log) = 1
    /\ log[1] = thrown.message

\* C18: every statement a repository method issues runs inside a
\* transaction, on a connection where app.current_user_id and
\* app.current_user_role have both been set for that transaction; a
\* transaction starts on a connection that carries no setting of an
\* earlier transaction.
C18_StatementsUnderRls ==
    [][\A p \in Procs :
         /\ (pc[p] \in {"tx_callback", "db_statement"} /\ Moved(p))
            => /\ stmt'.by = p
               /\ stmt'.inTx
               /\ stmt'.uid # Null
               /\ stmt'.role # "unset"
               /\ stmt'.uid = SettingId(req[p].hasCtx, req[p].userId)
               /\ stmt'.role = SettingRole(req[p].hasCtx, req[p].role)
         /\ (pc[p] = "tx_begin" /\ Moved(p))
            => Effective(conns'[loc'[p].conn]) = NoSettings]_vars

\* C19: RolesGuard lets a request through exactly when the handler declares
\* no roles, or the request carries a user whose role is among the declared
\* ones; with declared roles and no user it throws Forbidden 'User not
\* authenticated', with a user whose role is not declared Forbidden
\* 'Insufficient permissions'; an ADMIN is turned away from loan create and
\* loan return, which are declared for USER only.
C19_RolesGuardDecides ==
    [][\A p \in Procs :
          (pc[p] = "guard_canActivate" /\ Moved(p)) =>
             LET h == req[p].handler
                 m == RolesMetadata(h)
                 authed == req[p].userId # 0
                 allowed == pc'[p] = "guard_handler"
                 denied(msg) == /\ pc'[p] = "idle"
                                /\ response'.status = "Forbidden"
                                /\ response'.msg = msg
             IN  /\ allowed <=> (\/ ~m.declared
                                 \/ authed /\ req[p].role \in m.roles)
                 /\ (m.declared /\ ~authed)
                       => denied("User not authenticated")
                 /\ (m.declared /\ authed /\ req[p].role \notin m.roles)
                       => denied("Insufficient permissions")
                 /\ (/\ h \in {"LoansController.create",
                               "LoansController.returnLoan"}
                     /\ authed)
                       => IF req[p].role = "USER"
                            THEN allowed
                            ELSE denied("Insufficient permissions")]_vars

\* an ADMIN was turned away from loan create
C19_Witness ==
    /\ response.op = "LoansController.create"
    /\ response.role = "ADMIN"
    /\ response.by # 0
    /\ response.status = "Forbidden"
    /\ response.msg = "Insufficient permissions"

\* C20: createFromGoogleBooks adds exactly one create-from-catalog job and
\* waits for it.  A caller that gets a book gets the one the worker created
\* for its job, and a job completed before the wait ran out gives the caller
\* that book; a wait left while the job is unfinished is left on the
\* 60-second timeout with NotFound; a job that failed with anything other
\* than Conflict or NotFound gives NotFound; and every wait ends.
C20_CreateFromGoogleWaits ==
    /\ [][/\ Len(jobs') # Len(jobs) =>
                \E p \in Procs :
                   /\ pc[p] = "idle" /\ pc'[p] = "cfg_queued"
                   /\ jobs' = Append(jobs, jobs'[Len(jobs')])
                   /\ jobs'[Len(jobs')].name = "create-book-from-google"
                   /\ jobs'[Len(jobs')].isbn = req'[p].isbn
                   /\ loc'[p].jobId = Len(jobs')
          /\ \A p \in Procs :
                /\ (pc[p] = "idle" /\ pc'[p] = "cfg_queued")
                      => Len(jobs') = Len(jobs) + 1
                /\ (pc[p] = "cfg_wait" /\ Moved(p)) =>
                      LET job == jobs[loc[p].jobId]
                          waited == now - loc[p].at
                      IN  /\ pc'[p] = "idle"
                          /\ response'.proc = p
                          /\ response'.status \in {"OK", "Conflict", "NotFound"}
                          /\ response'.status = "OK" =>
                                /\ job.state = "completed"
                                /\ response'.id = job.result
                                /\ response'.id \in books
                                /\ bookIsbn13[response'.id] = job.vol
                          /\ (job.state = "completed" /\ waited < 60)
                                => response'.status = "OK"
                          /\ ~Finished(job) =>
                                /\ waited >= 60
                                /\ response'.status = "NotFound"
                          /\ (/\ job.state = "failed"
                              /\ job.kind \notin {"Conflict", "NotFound"})
                                => response'.status = "NotFound"]_vars
    /\ \A p \in Procs : (pc[p] = "cfg_wait") ~> (pc[p] = "idle")

\* a caller gave up after 60 seconds on a job that no worker had finished
C20_Witness ==
    /\ response.op = "createFromGoogleBooks"
    /\ response.status = "NotFound"
    /\ response.proc \in Procs
    /\ \E j \in DOMAIN jobs :
          /\ ~Finished(jobs[j])
          /\ \A p \in Procs : loc[p].jobId # j
    /\ now >= 60

\* C21: with interleaved create invocations the 'is book loaned' check
\* passes whenever the store holds no ongoing loan of the book, also while
\* another invocation that passed the same check has not inserted yet, and
\* every invocation that passed inserts its loan: a book with two loans
\* whose returnedAt is null is reachable.
C21_BothPassBothInsert ==
    [][\A p \in Procs :
          /\ (/\ pc[p] = "create_isBookLoaned"
              /\ Moved(p)
              /\ OngoingLoansOf(req[p].bookId) = {})
                => pc'[p] = "create_insert"
          /\ (pc[p] = "create_insert" /\ Moved(p)) =>
                /\ Len(loans') = Len(loans) + 1
                /\ \A i \in DOMAIN loans : loans'[i] = loans[i]
                /\ loans'[Len(loans')].bookId = req[p].bookId
                /\ loans'[Len(loans')].userId = req[p].userId
                /\ loans'[Len(loans')].returnedAt = Null
                /\ response'.status = "OK"
                /\ response'.id = Len(loans')]_vars

\* two loans of one book, both inserted by create, both not returned
C21_Witness ==
    \E i, j \in DOMAIN loans :
        /\ i < j
        /\ loans[i] # SeedLoan
        /\ loans[i].bookId = loans[j].bookId
        /\ loans[i].returnedAt = Null
        /\ loans[j].returnedAt = Null
        /\ response.op = "create"
        /\ response.status = "OK"
        /\ response.id = j

\* C22: with interleaved register invocations, the assignment of the card
\* looked up in step 1 is applied whatever has happened to the card since:
\* the invocation succeeds and the card goes to its user; when the card had
\* meanwhile been given to another successfully registered user, that user
\* is left without any card and no FREE card is consumed by the second
\* registration.
C22_LaterWriterTakesCard ==
    [][\A p \in Procs :
          (pc[p] = "register_assign" /\ Moved(p)) =>
             LET c == loc[p].cardId
                 u == loc[p].newUserId
                 prev == cards[c]
             IN  /\ response'.status = "OK"
                 /\ response'.id = u
                 /\ \E t \in tokens' : t.sub = u
                 /\ cards'[c].status = "IN_USE"
                 /\ cards'[c].userId = u
                 /\ \A d \in DOMAIN cards : d # c => cards'[d] = cards[d]
                 /\ prev.status = "IN_USE" =>
                       /\ prev.userId # u
                       /\ \E t \in tokens' : t.sub = prev.userId
                       /\ \A d \in DOMAIN cards :
                             cards'[d].userId # prev.userId
                       /\ {d \in DOMAIN cards : cards'[d].status = "FREE"}
                             = FreeCards]_vars

\* two users registered successfully, one card is in use by the later
\* writer, the other card is still FREE and the first user holds none
C22_Witness ==
    /\ Len(users) = 2
    /\ \A i \in DOMAIN users : \E t \in tokens : t.sub = users[i].id
    /\ \A p \in Procs : pc[p] = "idle"
    /\ Cardinality(FreeCards) = NumCards - 1
    /\ \E i \in DOMAIN users :
          \A c \in DOMAIN cards : cards[c].userId # users[i].id
    /\ response.op = "register"
    /\ response.status = "OK"

\* C23: when register has created its user and the card assignment then
\* fails, nothing is rolled back: the caller gets an error and no token,
\* the user row stays in the store holding no card, the card it was to get
\* stays FREE, and no later step removes the row.
C23_NoRollbackAfterFailedAssign ==
    [][/\ \A i \in DOMAIN users :
             i \in DOMAIN users' /\ users'[i] = users[i]
       /\ \A p \in Procs :
             (/\ pc[p] = "register_assign"
              /\ Moved(p)
              /\ response'.status # "OK") =>
                LET u == loc[p].newUserId
                IN  /\ response'.status = "Error"
                    /\ u \in DOMAIN users'
                    /\ users'[u].email = req[p].email
                    /\ cards'[loc[p].cardId].status = "FREE"
                    /\ \A c \in DOMAIN cards : cards'[c].userId # u
                    /\ \A t \in tokens' : t.sub # u]_vars

\* a registration failed at the assignment: its user is stored, holds no
\* card, has no token, and a card is still FREE
C23_Witness ==
    /\ response.op = "register"
    /\ response.status = "Error"
    /\ \E i \in DOMAIN users :
          /\ users[i].email = response.arg
          /\ \A c \in DOMAIN cards : cards[c].userId # users[i].id
          /\ \A t \in tokens : t.sub # users[i].id
    /\ FreeCards # {}

\* C24: every workflow operation performs all of its store checks and
\* writes inside one transaction that it opens and commits: the statements
\* of a completed loan create (book lookup, 'is book loaned' check, insert)
\* all belong to the same transaction, and so do the loan read and the loan
\* update of a completed returnLoan.
C24_OneTransactionPerOperation ==
    \A p \in Procs :
       (/\ pc[p] = "op_done"
        /\ req[p].handler \in {"LoansService.create",
                               "LoansService.returnLoan"}) =>
          /\ Len(loc[p].trace) = Len(OpPlan(req[p].handler))
          /\ \A i \in DOMAIN loc[p].trace :
                /\ loc[p].trace[i].inTx
                /\ loc[p].trace[i].txn = loc[p].trace[1].txn

\* C29: a repository call made without an rlsContext runs its transaction
\* with role ADMIN and an empty user id; a call made with one runs with the
\* user id and role supplied, each empty when missing; the 'is book loaned'
\* check of loan create and the free-card lookup pass no context and run as
\* ADMIN whatever the role of the requesting user.
C29_ContextOfTransaction ==
    [][\A p \in Procs :
          (pc[p] = "op_callback" /\ Moved(p)) =>
             LET given == /\ req[p].hasCtx
                          /\ req[p].method \notin
                                {"LoansRepository.isBookLoaned",
                                 "MembershipCardsRepository.findFirstFree"}
                 st == loc'[p].trace[Len(loc'[p].trace)]
                 cur == Effective(conns[loc[p].conn])
             IN  /\ st.method = req[p].method
                 /\ st.inTx
                 /\ st.uid = cur.uid
                 /\ st.role = cur.role
                 /\ ~given => (cur.role = "ADMIN" /\ cur.uid = 0)
                 /\ given =>
                       /\ cur.role = req[p].role
                       /\ cur.uid = IF req[p].userId = Absent
                                      THEN 0 ELSE req[p].userId]_vars

\* a loan create requested by a USER: its 'is book loaned' check ran as
\* ADMIN with no user id, its insert as the user
C29_Witness ==
    \E p \in Procs :
       /\ pc[p] = "op_done"
       /\ req[p].handler = "LoansService.create"
       /\ req[p].hasCtx
       /\ req[p].role = "USER"
       /\ loc[p].trace[2].method = "LoansRepository.isBookLoaned"
       /\ loc[p].trace[2].role = "ADMIN"
       /\ loc[p].trace[2].uid = 0
       /\ loc[p].trace[3].role = "USER"
       /\ loc[p].trace[3].uid = req[p].userId

\* C25: in every state every loan row has returnedAt null exactly when its
\* status is ONGOING, so the queries on returnedAt IS NULL return exactly
\* the ONGOING loans (of the user asked for).
C25_OngoingIffNotReturned ==
    /\ \A i \in DOMAIN loans :
          /\ loans[i].status \in {"ONGOING", "RETURNED", "LATE"}
          /\ (loans[i].returnedAt = Null) <=> (loans[i].status = "ONGOING")
    /\ findOngoing = {i \in DOMAIN loans : loans[i].status = "ONGOING"}
    /\ \A u \in UserIds :
          findOngoingByUserId(u) =
             {i \in DOMAIN loans :
                 loans[i].userId = u /\ loans[i].status = "ONGOING"}

\* the store holds a LATE loan and an ONGOING one, and the query for
\* the ongoing loans returns the second only
C25_Witness ==
    /\ \E i \in DOMAIN loans :
          loans[i].status = "LATE" /\ loans[i].returnedAt # Null
    /\ Cardinality(findOngoing) = 1
    /\ \A i \in findOngoing : loans[i].status = "ONGOING"
    /\ Len(loans) = 2

\* C26: with interleaved returnLoan invocations the borrower's call passes
\* the 'already returned' check whenever the stored row has returnedAt
\* null, also while another invocation that passed it has not written yet,
\* and every invocation that passed writes: it succeeds and the row takes
\* its returnedAt and status whatever the row holds by then, so a loan can
\* be written twice and its status can change after it was first returned.
C26_BothPassBothWrite ==
    [][\A p \in Procs : \A l \in DOMAIN loans :
          /\ (/\ pc[p] = "return_findById" /\ Moved(p)
              /\ req[p].loanId = l
              /\ req[p].userId = loans[l].userId
              /\ loans[l].returnedAt = Null)
                => pc'[p] = "return_update"
          /\ (pc[p] = "return_update" /\ Moved(p) /\ req[p].loanId = l) =>
                /\ response'.op = "returnLoan"
                /\ response'.status = "OK"
                /\ loans'[l].returnedAt = loc[p].at
                /\ loans'[l].status = loc[p].status
                /\ loans'[l].status \in Terminal
                /\ returnCount'[l] = returnCount[l] + 1]_vars

\* a loan was written by two returnLoan invocations and ended LATE with the
\* later writer's returnedAt
C26_Witness ==
    \E l \in DOMAIN loans :
        /\ returnCount[l] = 2
        /\ loans[l].status = "LATE"
        /\ loans[l].returnedAt > loans[l].dueAt
        /\ response.op = "returnLoan"
        /\ response.status = "OK"
        /\ response.id = l
        /\ response.by = loans[l].userId

\* C27: returnLoan applies its guards in the order unknown id, already
\* returned, wrong user, and answers a failing call with the first guard
\* that fails and nothing else: on a loan that is already returned a user
\* who is not the borrower gets the 'already returned' error, not
\* Forbidden.
C27_ReturnGuardOrder ==
    [][\A p \in Procs :
          (pc[p] = "return_findById" /\ Moved(p)) =>
             LET l == req[p].loanId
                 u == req[p].userId
                 fails(status) == /\ pc'[p] = "idle"
                                  /\ response'.proc = p
                                  /\ response'.op = "returnLoan"
                                  /\ response'.status = status
                                  /\ loans' = loans
                                  /\ returnCount' = returnCount
             IN  IF l \notin DOMAIN loans THEN fails("NotFound")
                 ELSE IF loans[l].returnedAt # Null THEN fails("BadRequest")
                 ELSE IF u # loans[l].userId THEN fails("Forbidden")
                 ELSE pc'[p] = "return_update" /\ response' = response]_vars

\* a user who is not the borrower was told that the loan is already
\* returned
C27_Witness ==
    /\ response.op = "returnLoan"
    /\ response.status = "BadRequest"
    /\ response.arg \in DOMAIN loans
    /\ loans[response.arg].returnedAt # Null
    /\ response.by # loans[response.arg].userId

\* C28: a book is blocked for borrowing exactly while it has a loan whose
\* returnedAt is null: once its loan has been returned, a create for the
\* book by any user passes the check and inserts a new ONGOING row under a
\* new id, and the returned row keeps its status and returnedAt.
C28_BorrowAgainAfterReturn ==
    [][\A p \in Procs :
          /\ (pc[p] = "create_isBookLoaned" /\ Moved(p)) =>
                IF \E i \in DOMAIN loans :
                      /\ loans[i].bookId = req[p].bookId
                      /\ loans[i].returnedAt = Null
                  THEN /\ pc'[p] = "idle"
                       /\ response'.status = "BadRequest"
                       /\ loans' = loans
                  ELSE pc'[p] = "create_insert"
          /\ (pc[p] = "create_insert" /\ Moved(p)) =>
                /\ response'.op = "create"
                /\ response'.status = "OK"
                /\ response'.id \notin DOMAIN loans
                /\ DOMAIN loans' = DOMAIN loans \cup {response'.id}
                /\ loans'[response'.id].id = response'.id
                /\ loans'[response'.id].bookId = req[p].bookId
                /\ loans'[response'.id].userId = req[p].userId
                /\ loans'[response'.id].status = "ONGOING"
                /\ loans'[response'.id].returnedAt = Null
                /\ \A i \in DOMAIN loans :
                      /\ loans'[i].status = loans[i].status
                      /\ loans'[i].returnedAt = loans[i].returnedAt]_vars

\* a book whose loan was returned has been lent again, to another user
C28_Witness ==
    /\ response.op = "create"
    /\ response.status = "OK"
    /\ response.id \in DOMAIN loans
    /\ loans[response.id].status = "ONGOING"
    /\ \E i \in DOMAIN loans :
          /\ i # response.id
          /\ loans[i].bookId = loans[response.id].bookId
          /\ loans[i].status \in Terminal
          /\ loans[i].returnedAt # Null
          /\ loans[i].userId # loans[response.id].userId

\* a step of enrichment job j
JobStep(j) == jobs'[j] # jobs[j]

Supplied(rec, f) == rec[f] \notin {Null, Absent}

RowsUnchanged == \A b \in books : Row(b)' = Row(b)

\* C30 as stated: the enrichment job writes a catalog field (description,
\* coverImageUrl, genre, publicationDate, isbn10, isbn13) only when the
\* book's value at the write is empty and the external record supplies one;
\* once the catalog has returned a record the job ends with externalSource,
\* externalId and externalMetadata overwritten by the record's; a job whose
\* search returns no record ends with every book unchanged.
C30_NeverOverwritesCurrent ==
    [][\A j \in DOMAIN jobs :
          JobStep(j) =>
            LET b == jobs[j].bookId
                rec == jobs[j].rec
            IN  /\ \A f \in CatalogFields :
                       Row(b)'[f] # Row(b)[f] =>
                         /\ Row(b)[f] = Null
                         /\ Supplied(rec, f)
                         /\ Row(b)'[f] = rec[f]
                /\ (rec # NoRow /\ Finished(jobs'[j])) =>
                       \A f \in ExternalFields : Row(b)'[f] = rec[f]
                /\ jobs'[j].kind = "skipped" => RowsUnchanged]_vars

\* C30 amended: the enrichment job writes a catalog field only when the
\* value it read from the book at the start of the job is empty and the
\* external record supplies one, and then it writes the record's value; a
\* job that applies its update overwrites externalSource, externalId and
\* externalMetadata with the record's; every other step of the job, and so
\* a job that finds no record or whose update is rejected, leaves every
\* book unchanged.
C30_WritesWhatItReadEmpty ==
    [][\A j \in DOMAIN jobs :
          JobStep(j) =>
            LET b == jobs[j].bookId
                rec == jobs[j].rec
                read == jobs[j].book
            IN  /\ \A f \in CatalogFields :
                       Row(b)'[f] # Row(b)[f] =>
                         /\ read[f] = Null
                         /\ Supplied(rec, f)
                         /\ Row(b)'[f] = rec[f]
                /\ jobs'[j].kind = "enriched" =>
                       /\ \A f \in ExternalFields : Row(b)'[f] = rec[f]
                       /\ \A c \in books \ {b} : Row(c)' = Row(c)
                /\ jobs'[j].kind # "enriched" => RowsUnchanged]_vars

\* an enrichment of book 1 is over: the description the book had is kept,
\* the cover it lacked comes from the record, and the external columns it
\* had are the record's
C30_Witness ==
    \E j \in DOMAIN jobs :
        /\ jobs[j].kind = "enriched"
        /\ jobs[j].bookId = 1
        /\ bookFields[1]["description"] = StoredBefore
        /\ bookFields[1]["coverImageUrl"] = FromCatalog
        /\ \A f \in ExternalFields : bookFields[1][f] = FromCatalog

====
